---- MODULE Spec2Model ----
(***************************************************************************)
(* A model of winereg: the registry tree (registry_key.rs), the value      *)
(* model (registry_value.rs), the structural comparator                    *)
(* (registry_comparator.rs) and the patcher (registry_patcher.rs).         *)
(*                                                                         *)
(* Strings are sequences of character codes, so that case folding and the  *)
(* splitting of a path on the backslash are computed as the code computes  *)
(* them.  A tree is a function from node positions to key records; a node  *)
(* position is the sequence of folded subkey-map keys that leads from the  *)
(* root to the node (the root is <<>>), so the subkey map of a node is the *)
(* set of positions one segment longer.                                    *)
(***************************************************************************)
EXTENDS Integers, Sequences, FiniteSets, TLC

\* Bound on the number of builder operations in one behaviour.
MaxOps == 3

\* The path separator, '\\'.
BACKSLASH == 92

---------------------------------------------------------------------------
(* Strings *)

\* char::to_ascii_uppercase: a-z fold to A-Z, everything else is kept.
to_ascii_uppercase(c) == IF c >= 97 /\ c <= 122 THEN c - 32 ELSE c

RECURSIVE normalize(_)
\* A deliberately wrong fold (identity) used to check that claims notice it.
normalize_identity(name) == name

normalize(name) ==
    IF name = <<>> THEN <<>>
    ELSE <<to_ascii_uppercase(Head(name))>> \o normalize(Tail(name))

RECURSIVE SplitAcc(_, _, _)
SplitAcc(s, cur, acc) ==
    IF s = <<>> THEN Append(acc, cur)
    ELSE IF Head(s) = BACKSLASH
         THEN SplitAcc(Tail(s), <<>>, Append(acc, cur))
         ELSE SplitAcc(Tail(s), Append(cur, Head(s)), acc)

\* path.split('\\').filter(|s| !s.is_empty())
segments(path) == SelectSeq(SplitAcc(path, <<>>, <<>>), LAMBDA s : s # <<>>)

\* p.matches('\\').count()
backslash_count(path) == Len(SelectSeq(path, LAMBDA c : c = BACKSLASH))

\* Index of the last backslash of path, 0 when there is none.
LastBackslash(path) ==
    LET I == {i \in 1..Len(path) : path[i] = BACKSLASH}
    IN IF I = {} THEN 0 ELSE CHOOSE i \in I : \A j \in I : j <= i

\* path.rsplit_once('\\').map(|(p, n)| ..).unwrap_or_else(|| ("", path))
rsplit_parent(path) ==
    IF LastBackslash(path) = 0 THEN <<>>
    ELSE SubSeq(path, 1, LastBackslash(path) - 1)

rsplit_name(path) ==
    IF LastBackslash(path) = 0 THEN path
    ELSE SubSeq(path, LastBackslash(path) + 1, Len(path))

\* Byte-wise lexicographic order of String, the order of BTreeMap<String, _>.
RECURSIVE LexLess(_, _)
LexLess(a, b) ==
    IF b = <<>> THEN FALSE
    ELSE IF a = <<>> THEN TRUE
    ELSE IF Head(a) # Head(b) THEN Head(a) < Head(b)
    ELSE LexLess(Tail(a), Tail(b))

\* The keys of a BTreeMap in iteration order.
RECURSIVE SortedSeq(_)
SortedSeq(S) ==
    IF S = {} THEN <<>>
    ELSE LET m == CHOOSE x \in S : \A y \in S \ {x} : LexLess(x, y)
         IN <<m>> \o SortedSeq(S \ {m})

\* Option<T>
None == <<>>
Some(x) == <<x>>

---------------------------------------------------------------------------
(* u64: registry_utils.rs works on unsigned 64-bit integers.  A u64 is the *)
(* sequence of its decimal digits, most significant first, without leading *)
(* zeros (zero is <<0>>), so that the full 64-bit range is kept.           *)

RECURSIVE Reverse(_)
Reverse(s) == IF s = <<>> THEN <<>> ELSE Append(Reverse(Tail(s)), Head(s))

RECURSIVE strip_zeros(_)
strip_zeros(d) ==
    IF d = <<>> THEN <<0>>
    ELSE IF Len(d) > 1 /\ Head(d) = 0 THEN strip_zeros(Tail(d))
    ELSE d

\* The digits of a small natural number.
RECURSIVE from_nat(_)
from_nat(n) == IF n < 10 THEN <<n>> ELSE Append(from_nat(n \div 10), n % 10)

big_lt(a, b) == Len(a) < Len(b) \/ (Len(a) = Len(b) /\ LexLess(a, b))

\* Addition and subtraction on little-endian digits, with carry and borrow.
RECURSIVE add_le(_, _, _)
add_le(a, b, carry) ==
    IF a = <<>> /\ b = <<>> THEN (IF carry = 0 THEN <<>> ELSE <<carry>>)
    ELSE LET x == IF a = <<>> THEN 0 ELSE Head(a)
             y == IF b = <<>> THEN 0 ELSE Head(b)
             sum == x + y + carry
         IN <<sum % 10>> \o add_le(IF a = <<>> THEN a ELSE Tail(a),
                                   IF b = <<>> THEN b ELSE Tail(b), sum \div 10)

RECURSIVE sub_le(_, _, _)
sub_le(a, b, borrow) ==
    IF a = <<>> THEN <<>>
    ELSE LET y == (IF b = <<>> THEN 0 ELSE Head(b)) + borrow
             under == Head(a) < y
         IN <<(IF under THEN Head(a) + 10 ELSE Head(a)) - y>>
            \o sub_le(Tail(a), IF b = <<>> THEN b ELSE Tail(b), IF under THEN 1 ELSE 0)

big_add(a, b) ==
    IF a = <<>> \/ b = <<>> THEN strip_zeros(a \o b)
    ELSE strip_zeros(Reverse(add_le(Reverse(a), Reverse(b), 0)))

\* a - b for a >= b
big_sub(a, b) ==
    IF a = <<>> \/ b = <<>> THEN strip_zeros(a)
    ELSE strip_zeros(Reverse(sub_le(Reverse(a), Reverse(b), 0)))

RECURSIVE mul_digit_le(_, _, _)
mul_digit_le(a, d, carry) ==
    IF a = <<>> THEN (IF carry = 0 THEN <<>> ELSE <<carry>>)
    ELSE LET prod == Head(a) * d + carry
         IN <<prod % 10>> \o mul_digit_le(Tail(a), d, prod \div 10)

RECURSIVE mul_acc(_, _, _)
mul_acc(a, b, acc) ==
    IF b = <<>> THEN acc
    ELSE LET step(next) == IF next = <<>> THEN next ELSE mul_acc(a, Tail(b), next)
         IN step(big_add(strip_zeros(Append(acc, 0)),
                         strip_zeros(Reverse(mul_digit_le(Reverse(a), Head(b), 0)))))

big_mul(a, b) == IF a = <<>> \/ b = <<>> THEN <<0>> ELSE mul_acc(a, b, <<0>>)

\* How many times b goes into r, for r < 10 * b.
RECURSIVE times_in(_, _)
times_in(r, b) == IF big_lt(r, b) THEN 0 ELSE 1 + times_in(big_sub(r, b), b)

RECURSIVE div_acc(_, _, _, _)
div_acc(a, b, quot, rem) ==
    IF a = <<>> THEN [quot |-> strip_zeros(quot), rem |-> rem]
    ELSE LET step(q, rest) ==
                 IF rest = <<>> THEN [quot |-> quot, rem |-> rest]
                 ELSE div_acc(Tail(a), b, Append(quot, q), rest)
             digit(r, q) == step(q, big_sub(r, big_mul(b, <<q>>)))
             bring_down(r) == digit(r, times_in(r, b))
         IN bring_down(strip_zeros(Append(rem, Head(a))))

\* Integer division and remainder, b > 0
big_divmod(a, b) ==
    IF a = <<>> \/ b = <<>> THEN [quot |-> <<0>>, rem |-> <<0>>]
    ELSE div_acc(a, b, <<>>, <<0>>)

\* u64::MAX = 2^64 - 1
U64_MAX == <<1, 8, 4, 4, 6, 7, 4, 4, 0, 7, 3, 7, 0, 9, 5, 5, 1, 6, 1, 5>>

overflows(x) == big_lt(U64_MAX, x)

\* The value a wrapping operation keeps: x mod 2^64.
TWO_64 == <<1, 8, 4, 4, 6, 7, 4, 4, 0, 7, 3, 7, 0, 9, 5, 5, 1, 6, 1, 6>>

wrapping(x) == big_divmod(x, TWO_64).rem

\* The outcome of a u64 operation whose exact result is x.  An overflow
\* panics when the build has overflow checks (debug) and wraps otherwise.
Panic == [panic |-> TRUE]
Value(x) == [panic |-> FALSE, value |-> x]

u64_result(x, overflow_checks) ==
    IF overflows(x) THEN (IF overflow_checks THEN Panic ELSE Value(wrapping(x)))
    ELSE Value(x)

TICKS_PER_SEC == <<1, 0, 0, 0, 0, 0, 0, 0>>

\* 86_400 * (369 * 365 + 89) * TICKS_PER_SEC = 116_444_736_000_000_000
TICKS_1601_TO_1970 == <<1, 1, 6, 4, 4, 4, 7, 3, 6, 0, 0, 0, 0, 0, 0, 0, 0, 0>>

\* timestamp * TICKS_PER_SEC + TICKS_1601_TO_1970
timestamp_to_filetime(timestamp, overflow_checks) ==
    LET plus_epoch(product) ==
            IF product.panic THEN Panic
            ELSE u64_result(big_add(product.value, TICKS_1601_TO_1970), overflow_checks)
    IN plus_epoch(u64_result(big_mul(timestamp, TICKS_PER_SEC), overflow_checks))

\* (filetime - TICKS_1601_TO_1970) / TICKS_PER_SEC
filetime_to_timestamp(filetime, overflow_checks) ==
    IF big_lt(filetime, TICKS_1601_TO_1970)
    THEN IF overflow_checks THEN Panic
         ELSE Value(big_divmod(big_sub(big_add(filetime, TWO_64),
                                       TICKS_1601_TO_1970),
                               TICKS_PER_SEC).quot)
    ELSE Value(big_divmod(big_sub(filetime, TICKS_1601_TO_1970), TICKS_PER_SEC).quot)

---------------------------------------------------------------------------
(* Values: registry_value.rs *)

REG_SZ == 1
REG_EXPAND_SZ == 2
REG_DWORD == 4
REG_MULTI_SZ == 7
REG_QWORD == 11

DString(s) == [tag |-> "String", s |-> s]
DExpandString(s) == [tag |-> "ExpandString", s |-> s]
DMultiString(items) == [tag |-> "MultiString", items |-> items]
DDword(n) == [tag |-> "Dword", n |-> n]
DQword(n) == [tag |-> "Qword", n |-> n]
DBinary(bytes, ty) == [tag |-> "Binary", bytes |-> bytes, ty |-> ty]

\* RegistryValue::new
RegistryValue(name, data) == [name |-> name, data |-> data]

\* A type-code function that forgets the code a Binary carries.
reg_type_binary3(v) ==
    CASE v.data.tag = "String" -> REG_SZ
      [] v.data.tag = "ExpandString" -> REG_EXPAND_SZ
      [] v.data.tag = "MultiString" -> REG_MULTI_SZ
      [] v.data.tag = "Dword" -> REG_DWORD
      [] v.data.tag = "Qword" -> REG_QWORD
      [] v.data.tag = "Binary" -> 3

reg_type(v) ==
    CASE v.data.tag = "String" -> REG_SZ
      [] v.data.tag = "ExpandString" -> REG_EXPAND_SZ
      [] v.data.tag = "MultiString" -> REG_MULTI_SZ
      [] v.data.tag = "Dword" -> REG_DWORD
      [] v.data.tag = "Qword" -> REG_QWORD
      [] v.data.tag = "Binary" -> v.data.ty

\* s.encode_utf16().flat_map(|c| c.to_le_bytes()), for code points below 2^16.
RECURSIVE utf16le(_)
utf16le(s) ==
    IF s = <<>> THEN <<>>
    ELSE <<Head(s) % 256, Head(s) \div 256>> \o utf16le(Tail(s))

\* n.to_le_bytes() on a width of k bytes.
RECURSIVE to_le_bytes(_, _)
to_le_bytes(n, k) ==
    IF k = 0 THEN <<>> ELSE <<n % 256>> \o to_le_bytes(n \div 256, k - 1)

RECURSIVE multi_bytes(_)
multi_bytes(items) ==
    IF items = <<>> THEN <<>>
    ELSE utf16le(Head(items)) \o <<0, 0>> \o multi_bytes(Tail(items))

raw_bytes(v) ==
    CASE v.data.tag \in {"String", "ExpandString"} -> utf16le(v.data.s) \o <<0, 0>>
      [] v.data.tag = "MultiString" -> multi_bytes(v.data.items) \o <<0, 0>>
      [] v.data.tag = "Dword" -> to_le_bytes(v.data.n, 4)
      [] v.data.tag = "Qword" -> to_le_bytes(v.data.n, 8)
      [] v.data.tag = "Binary" -> v.data.bytes

---------------------------------------------------------------------------
(* The tree: registry_key.rs *)

\* A BTreeMap as a function; insert and remove.
MapInsert(m, k, v) == (k :> v) @@ m
MapRemove(m, k) == [x \in DOMAIN m \ {k} |-> m[x]]

IsPrefix(q, p) == Len(q) <= Len(p) /\ SubSeq(p, 1, Len(q)) = q

\* RegistryKey::create_root: a tree holding the root only.
create_root ==
    (<<>> :> [name |-> <<>>, class_name |-> None, modification_time |-> <<0>>,
              is_symlink |-> FALSE, is_volatile |-> FALSE, is_dirty |-> FALSE,
              parent |-> None, values |-> <<>>])

\* A fresh key that does not record its parent.
new_with_parent_none(parent, name) ==
    [name |-> name, class_name |-> None, modification_time |-> <<0>>,
     is_symlink |-> FALSE, is_volatile |-> FALSE, is_dirty |-> TRUE,
     parent |-> None, values |-> <<>>]

\* RegistryKey::new_with_parent: the record of a fresh key; its parent
\* back-reference is the position of the node it was created for.
new_with_parent(parent, name) ==
    [name |-> name, class_name |-> None, modification_time |-> <<0>>,
     is_symlink |-> FALSE, is_volatile |-> FALSE, is_dirty |-> TRUE,
     parent |-> Some(parent), values |-> <<>>]

\* The keys of node p's subkey map.
subkey_names(t, p) ==
    {q[Len(q)] : q \in {r \in DOMAIN t : Len(r) = Len(p) + 1 /\ IsPrefix(p, r)}}

\* A mark_dirty that was forgotten.
mark_dirty_nothing(t, p) == t

\* RegistryKey::mark_dirty: the key and every ancestor up to the root.
mark_dirty(t, p) ==
    [q \in DOMAIN t |->
        IF IsPrefix(q, p) THEN [t[q] EXCEPT !.is_dirty = TRUE] ELSE t[q]]

\* RegistryKey::get_subkey: Some(node) or None.
get_subkey(t, p, name) ==
    IF Append(p, normalize(name)) \in DOMAIN t THEN Some(Append(p, normalize(name))) ELSE None

\* RegistryKey::get_value
get_value(t, p, name) ==
    IF normalize(name) \in DOMAIN t[p].values
    THEN Some(t[p].values[normalize(name)]) ELSE None

\* RegistryKey::set_value
set_value(t, p, name, value) ==
    mark_dirty([t EXCEPT ![p].values = MapInsert(@, normalize(name), value)], p)

\* RegistryKey::delete_value: the tree after the call, and what it returns.
delete_value(t, p, name) ==
    LET removed == normalize(name) \in DOMAIN t[p].values
    IN [tree |-> IF removed
                 THEN mark_dirty([t EXCEPT ![p].values = MapRemove(@, normalize(name))], p)
                 ELSE t,
        removed |-> removed]

\* A create_subkey that gives an existing child the name it was called with.
create_subkey_renames(t, p, name) ==
    LET c == Append(p, normalize(name))
    IN IF c \in DOMAIN t THEN [tree |-> [t EXCEPT ![c].name = name], node |-> c]
       ELSE [tree |-> mark_dirty((c :> new_with_parent(p, name)) @@ t, p), node |-> c]

\* RegistryKey::create_subkey: the tree after the call and the node returned.
create_subkey(t, p, name) ==
    LET c == Append(p, normalize(name))
    IN IF c \in DOMAIN t THEN [tree |-> t, node |-> c]
       ELSE [tree |-> mark_dirty((c :> new_with_parent(p, name)) @@ t, p), node |-> c]

\* RegistryKey::create_key_recursive, over the segments still to visit.
RECURSIVE create_segments(_, _, _)
create_segments(t, cur, segs) ==
    IF segs = <<>> THEN [tree |-> t, node |-> cur]
    ELSE LET c == Append(cur, normalize(Head(segs)))
         IN IF c \in DOMAIN t
            THEN create_segments(t, c, Tail(segs))
            ELSE create_segments(
                     mark_dirty((c :> new_with_parent(cur, Head(segs))) @@ t, cur),
                     c, Tail(segs))

create_key_recursive(t, p, path) ==
    IF path = <<>> THEN [tree |-> t, node |-> p]
    ELSE create_segments(t, p, segments(path))

\* RegistryKey::find_key: Some(node) or None.
RECURSIVE find_segments(_, _, _)
find_segments(t, cur, segs) ==
    IF segs = <<>> THEN Some(cur)
    ELSE LET c == Append(cur, normalize(Head(segs)))
         IN IF c \in DOMAIN t THEN find_segments(t, c, Tail(segs)) ELSE None

find_key(t, p, path) ==
    IF path = <<>> THEN Some(p) ELSE find_segments(t, p, segments(path))

\* A delete_subkey that removes the subkey whatever recursive says.
delete_subkey_always(t, p, name, recursive) ==
    LET c == Append(p, normalize(name))
        removed == c \in DOMAIN t
    IN [tree |-> IF removed
                 THEN mark_dirty([q \in {r \in DOMAIN t : ~IsPrefix(c, r)} |-> t[q]], p)
                 ELSE t,
        removed |-> removed]

\* RegistryKey::delete_subkey: the tree after the call, and what it returns.
delete_subkey(t, p, name, recursive) ==
    LET c == Append(p, normalize(name))
        refused == ~recursive /\ (IF c \in DOMAIN t THEN subkey_names(t, c) # {} ELSE TRUE)
        removed == ~refused /\ c \in DOMAIN t
    IN [tree |-> IF removed
                 THEN mark_dirty([q \in {r \in DOMAIN t : ~IsPrefix(c, r)} |-> t[q]], p)
                 ELSE t,
        removed |-> removed]

---------------------------------------------------------------------------
(* Changes and the comparator: registry_comparator.rs *)

KeyAdded(path) == [kind |-> "KeyAdded", path |-> path]
KeyDeleted(path) == [kind |-> "KeyDeleted", path |-> path]
KeyModified(path, props) == [kind |-> "KeyModified", path |-> path, props |-> props]
ValueAdded(path, name, value) ==
    [kind |-> "ValueAdded", path |-> path, name |-> name, value |-> value]
ValueDeleted(path, name, value) ==
    [kind |-> "ValueDeleted", path |-> path, name |-> name, value |-> value]
ValueModified(path, name, old_value, new_value) ==
    [kind |-> "ValueModified", path |-> path, name |-> name,
     old_value |-> old_value, new_value |-> new_value]

ClassNameChange(old, new) == [prop |-> "ClassNameChange", old |-> old, new |-> new]
SymlinkChange(old, new) == [prop |-> "SymlinkChange", old |-> old, new |-> new]
VolatileChange(old, new) == [prop |-> "VolatileChange", old |-> old, new |-> new]

\* values_equal
values_equal(a, b) == reg_type(a) = reg_type(b) /\ raw_bytes(a) = raw_bytes(b)

\* if path.is_empty() { name.clone() } else { format!("{}\\{}", path, name) }
sub_path(path, name) ==
    IF path = <<>> THEN name ELSE path \o <<BACKSLASH>> \o name

\* The changes pushed by a for loop: parts[i] is what iteration i pushes.
Flatten(parts) ==
    LET acc[i \in 0..Len(parts)] ==
            IF i = 0 THEN <<>> ELSE acc[i - 1] \o parts[i]
    IN acc[Len(parts)]

RECURSIVE add_subtree_added(_, _, _)
add_subtree_added(t, p, path) ==
    Flatten([i \in 1..Len(SortedSeq(DOMAIN t[p].values)) |->
                LET k == SortedSeq(DOMAIN t[p].values)[i]
                IN <<ValueAdded(path, t[p].values[k].name, t[p].values[k])>>])
    \o Flatten([i \in 1..Len(SortedSeq(subkey_names(t, p))) |->
                LET n == SortedSeq(subkey_names(t, p))[i]
                IN <<KeyAdded(sub_path(path, n))>>
                           \o add_subtree_added(t, Append(p, n), sub_path(path, n))])

RECURSIVE add_subtree_deleted(_, _, _)
add_subtree_deleted(t, p, path) ==
    Flatten([i \in 1..Len(SortedSeq(DOMAIN t[p].values)) |->
                LET k == SortedSeq(DOMAIN t[p].values)[i]
                IN <<ValueDeleted(path, t[p].values[k].name, t[p].values[k])>>])
    \o Flatten([i \in 1..Len(SortedSeq(subkey_names(t, p))) |->
                LET n == SortedSeq(subkey_names(t, p))[i]
                IN <<KeyDeleted(sub_path(path, n))>>
                           \o add_subtree_deleted(t, Append(p, n), sub_path(path, n))])

\* A compare_values that forgets the values present on the right side only.
compare_values_no_added(l, r, p, path) ==
    LET l_vals == l[p].values
        r_vals == r[p].values
    IN Flatten([i \in 1..Len(SortedSeq(DOMAIN l_vals)) |->
                LET k == SortedSeq(DOMAIN l_vals)[i]
                IN IF k \notin DOMAIN r_vals
                           THEN <<ValueDeleted(path, l_vals[k].name, l_vals[k])>>
                           ELSE <<>>])
       \o Flatten([i \in 1..Len(SortedSeq(DOMAIN l_vals)) |->
                LET k == SortedSeq(DOMAIN l_vals)[i]
                IN IF k \in DOMAIN r_vals /\ ~values_equal(l_vals[k], r_vals[k])
                              THEN <<ValueModified(path, l_vals[k].name, l_vals[k], r_vals[k])>>
                              ELSE <<>>])

compare_values(l, r, p, path) ==
    LET l_vals == l[p].values
        r_vals == r[p].values
    IN Flatten([i \in 1..Len(SortedSeq(DOMAIN r_vals)) |->
                LET k == SortedSeq(DOMAIN r_vals)[i]
                IN IF k \notin DOMAIN l_vals
                           THEN <<ValueAdded(path, r_vals[k].name, r_vals[k])>>
                           ELSE <<>>])
       \o Flatten([i \in 1..Len(SortedSeq(DOMAIN l_vals)) |->
                LET k == SortedSeq(DOMAIN l_vals)[i]
                IN IF k \notin DOMAIN r_vals
                              THEN <<ValueDeleted(path, l_vals[k].name, l_vals[k])>>
                              ELSE <<>>])
       \o Flatten([i \in 1..Len(SortedSeq(DOMAIN l_vals)) |->
                LET k == SortedSeq(DOMAIN l_vals)[i]
                IN IF k \in DOMAIN r_vals /\ ~values_equal(l_vals[k], r_vals[k])
                              THEN <<ValueModified(path, l_vals[k].name, l_vals[k], r_vals[k])>>
                              ELSE <<>>])

\* A compare_props that reports the class name whenever the right key has one.
compare_props_right_class(l, r, p, path) ==
    IF r[p].class_name # None
    THEN <<KeyModified(path, <<ClassNameChange(l[p].class_name, r[p].class_name)>>)>>
    ELSE <<>>

\* The KeyModified of a pair of keys present on both sides.
compare_props(l, r, p, path) ==
    LET prop_changes ==
            (IF l[p].class_name # r[p].class_name
             THEN <<ClassNameChange(l[p].class_name, r[p].class_name)>> ELSE <<>>)
            \o (IF l[p].is_symlink # r[p].is_symlink
                THEN <<SymlinkChange(l[p].is_symlink, r[p].is_symlink)>> ELSE <<>>)
            \o (IF l[p].is_volatile # r[p].is_volatile
                THEN <<VolatileChange(l[p].is_volatile, r[p].is_volatile)>> ELSE <<>>)
    IN IF prop_changes # <<>> THEN <<KeyModified(path, prop_changes)>> ELSE <<>>

\* compare_keys, with compare_subkeys inlined: p is the position of the pair
\* (the two keys sit under the same folded names), has_l and has_r tell which
\* side is Some.
RECURSIVE compare_keys(_, _, _, _, _, _)
compare_keys(l, r, p, has_l, has_r, path) ==
    CASE ~has_l /\ has_r -> <<KeyAdded(path)>> \o add_subtree_added(r, p, path)
      [] has_l /\ ~has_r -> <<KeyDeleted(path)>> \o add_subtree_deleted(l, p, path)
      [] has_l /\ has_r ->
            compare_props(l, r, p, path)
            \o compare_values(l, r, p, path)
            \o Flatten([i \in 1..Len(SortedSeq(subkey_names(l, p) \cup subkey_names(r, p))) |->
                LET n == SortedSeq(subkey_names(l, p) \cup subkey_names(r, p))[i]
                IN compare_keys(l, r, Append(p, n),
                                                n \in subkey_names(l, p),
                                                n \in subkey_names(r, p),
                                                sub_path(path, n))])
      [] OTHER -> <<>>

\* RegistryComparator::compare_registries
compare_registries(l, r) == compare_keys(l, r, <<>>, TRUE, TRUE, <<>>)

---------------------------------------------------------------------------
(* The patcher: registry_patcher.rs *)

\* PatchOptions::default
PatchOptionsDefault ==
    [ignore_failures |-> FALSE, create_missing_keys |-> TRUE,
     overwrite_existing_values |-> TRUE, delete_empty_keys |-> TRUE,
     validate_before_apply |-> FALSE]

PatchOptionsAll ==
    [ignore_failures : BOOLEAN, create_missing_keys : BOOLEAN,
     overwrite_existing_values : BOOLEAN, delete_empty_keys : BOOLEAN,
     validate_before_apply : BOOLEAN]

\* What apply_change returns: Ok(true), Ok(false) or Err(msg).
OkTrue == "Ok(true)"
OkFalse == "Ok(false)"
ErrMissingKey == "Err(missing key)"

\* depth(change)
depth(change) == backslash_count(change.path)

\* sort_by_key / sort_by on the depth, both stable: each change, in input
\* order, goes before the first change it is strictly before.
sort_by_depth(s, descending) ==
    LET Before(a, b) == IF descending THEN depth(a) > depth(b) ELSE depth(a) < depth(b)
        Insert(sorted, x) ==
            LET I == {i \in 1..Len(sorted) : Before(x, sorted[i])}
                k == IF I = {} THEN Len(sorted) + 1
                     ELSE CHOOSE i \in I : \A j \in I : i <= j
            IN SubSeq(sorted, 1, k - 1) \o <<x>> \o SubSeq(sorted, k, Len(sorted))
        acc[i \in 0..Len(s)] == IF i = 0 THEN <<>> ELSE Insert(acc[i - 1], s[i])
    IN acc[Len(s)]

OfKind(changes, kind) == SelectSeq(changes, LAMBDA c : c.kind = kind)

\* An ordering that applies the value additions before the key additions.
order_changes_values_first(changes) ==
    OfKind(changes, "ValueAdded")
    \o sort_by_depth(OfKind(changes, "KeyAdded"), FALSE)
    \o OfKind(changes, "KeyModified")
    \o OfKind(changes, "ValueModified")
    \o OfKind(changes, "ValueDeleted")
    \o sort_by_depth(OfKind(changes, "KeyDeleted"), TRUE)

order_changes(changes) ==
    sort_by_depth(OfKind(changes, "KeyAdded"), FALSE)
    \o OfKind(changes, "KeyModified")
    \o OfKind(changes, "ValueAdded")
    \o OfKind(changes, "ValueModified")
    \o OfKind(changes, "ValueDeleted")
    \o sort_by_depth(OfKind(changes, "KeyDeleted"), TRUE)

\* An apply_key_added that ignores create_missing_keys.
apply_key_added_always(t, path, options) ==
    [tree |-> create_key_recursive(t, <<>>, path).tree, res |-> OkTrue]

apply_key_added(t, path, options) ==
    IF options.create_missing_keys
    THEN [tree |-> create_key_recursive(t, <<>>, path).tree, res |-> OkTrue]
    ELSE LET parent_path == rsplit_parent(path)
         IN IF parent_path = <<>>
            THEN [tree |-> create_key_recursive(t, <<>>, path).tree, res |-> OkTrue]
            ELSE IF find_key(t, <<>>, parent_path) # None
            THEN [tree |-> create_key_recursive(t, <<>>, path).tree, res |-> OkTrue]
            ELSE [tree |-> t, res |-> OkFalse]

apply_key_deleted(t, path) ==
    LET parent_path == rsplit_parent(path)
        key_name == rsplit_name(path)
        parent == IF parent_path = <<>> THEN Some(<<>>) ELSE find_key(t, <<>>, parent_path)
    IN IF parent # None
       THEN LET d == delete_subkey(t, parent[1], key_name, TRUE)
            IN [tree |-> d.tree, res |-> IF d.removed THEN OkTrue ELSE OkFalse]
       ELSE [tree |-> t, res |-> OkFalse]

apply_prop(key, p) ==
    CASE p.prop = "ClassNameChange" -> [key EXCEPT !.class_name = p.new]
      [] p.prop = "SymlinkChange" -> [key EXCEPT !.is_symlink = p.new]
      [] p.prop = "VolatileChange" -> [key EXCEPT !.is_volatile = p.new]

apply_key_modified(t, path, props) ==
    LET node == find_key(t, <<>>, path)
        acc[i \in 0..Len(props)] ==
            IF i = 0 THEN t[node[1]] ELSE apply_prop(acc[i - 1], props[i])
    IN IF node = None THEN [tree |-> t, res |-> ErrMissingKey]
       ELSE [tree |-> [t EXCEPT ![node[1]] = acc[Len(props)]], res |-> OkTrue]

\* An apply_value_added that overwrites whatever the options say.
apply_value_added_overwrites(t, key_path, value_name, value, options) ==
    LET found == find_key(t, <<>>, key_path)
    IN IF key_path # <<>> /\ ~options.create_missing_keys /\ found = None
       THEN [tree |-> t, res |-> ErrMissingKey]
       ELSE LET made == create_key_recursive(t, <<>>, key_path)
            IN [tree |-> set_value(made.tree, made.node, value_name, value), res |-> OkTrue]

apply_value_added(t, key_path, value_name, value, options) ==
    LET made == create_key_recursive(t, <<>>, key_path)
        found == find_key(t, <<>>, key_path)
        missing == key_path # <<>> /\ ~options.create_missing_keys /\ found = None
        t1 == IF key_path # <<>> /\ options.create_missing_keys THEN made.tree ELSE t
        key == IF key_path = <<>> THEN <<>>
               ELSE IF options.create_missing_keys THEN made.node
               ELSE found[1]
    IN IF missing THEN [tree |-> t, res |-> ErrMissingKey]
       ELSE IF ~options.overwrite_existing_values /\ get_value(t1, key, value_name) # None
       THEN [tree |-> t1, res |-> OkFalse]
       ELSE [tree |-> set_value(t1, key, value_name, value), res |-> OkTrue]

\* delete_empty_chain, from the loop's current_path on.
RECURSIVE delete_empty_loop(_, _)
delete_empty_loop(t, current_path) ==
    IF current_path = <<>> THEN t
    ELSE LET node == find_key(t, <<>>, current_path)
         IN IF node = None THEN t
            ELSE IF ~(DOMAIN t[node[1]].values = {} /\ subkey_names(t, node[1]) = {})
            THEN t
            ELSE LET parent_path == rsplit_parent(current_path)
                     name == rsplit_name(current_path)
                     parent == IF parent_path = <<>> THEN Some(<<>>)
                               ELSE find_key(t, <<>>, parent_path)
                 IN IF parent # None
                    THEN LET d == delete_subkey(t, parent[1], name, FALSE)
                         IN IF ~d.removed THEN t
                            ELSE delete_empty_loop(d.tree, parent_path)
                    ELSE delete_empty_loop(t, parent_path)

\* A cleanup that stops after the first key.
delete_empty_chain_one_level(t, path) ==
    LET node == find_key(t, <<>>, path)
    IN IF path = <<>> \/ node = None THEN t
       ELSE IF DOMAIN t[node[1]].values = {} /\ subkey_names(t, node[1]) = {}
            THEN [q \in DOMAIN t \ {node[1]} |-> t[q]]
            ELSE t

delete_empty_chain(t, path) ==
    IF path = <<>> THEN t ELSE delete_empty_loop(t, path)

apply_value_deleted(t, key_path, value_name, options) ==
    LET key == find_key(t, <<>>, key_path)
    IN IF key = None THEN [tree |-> t, res |-> ErrMissingKey]
       ELSE LET d == delete_value(t, key[1], value_name)
            IN [tree |-> IF d.removed /\ options.delete_empty_keys
                         THEN delete_empty_chain(d.tree, key_path)
                         ELSE d.tree,
                res |-> IF d.removed THEN OkTrue ELSE OkFalse]

\* An apply_value_modified that stores the new value before it validates.
apply_value_modified_sets_first(t, key_path, value_name, old_value, new_value, options) ==
    LET key == find_key(t, <<>>, key_path)
    IN IF key = None THEN [tree |-> t, res |-> ErrMissingKey]
       ELSE LET existing == get_value(t, key[1], value_name)
                rejected ==
                    options.validate_before_apply
                    /\ (IF existing # None
                        THEN reg_type(existing[1]) # reg_type(old_value)
                             \/ raw_bytes(existing[1]) # raw_bytes(old_value)
                        ELSE TRUE)
            IN [tree |-> set_value(t, key[1], value_name, new_value),
                res |-> IF rejected THEN OkFalse ELSE OkTrue]

\* An apply_value_modified that never looks at the current value.
apply_value_modified_unvalidated(t, key_path, value_name, old_value, new_value, options) ==
    LET key == find_key(t, <<>>, key_path)
    IN IF key = None THEN [tree |-> t, res |-> ErrMissingKey]
       ELSE [tree |-> set_value(t, key[1], value_name, new_value), res |-> OkTrue]

apply_value_modified(t, key_path, value_name, old_value, new_value, options) ==
    LET key == find_key(t, <<>>, key_path)
    IN IF key = None THEN [tree |-> t, res |-> ErrMissingKey]
       ELSE LET existing == get_value(t, key[1], value_name)
                rejected ==
                    options.validate_before_apply
                    /\ (IF existing # None
                        THEN reg_type(existing[1]) # reg_type(old_value)
                             \/ raw_bytes(existing[1]) # raw_bytes(old_value)
                        ELSE TRUE)
            IN IF rejected THEN [tree |-> t, res |-> OkFalse]
               ELSE [tree |-> set_value(t, key[1], value_name, new_value), res |-> OkTrue]

apply_change(t, change, options) ==
    CASE change.kind = "KeyAdded" -> apply_key_added(t, change.path, options)
      [] change.kind = "KeyDeleted" -> apply_key_deleted(t, change.path)
      [] change.kind = "KeyModified" -> apply_key_modified(t, change.path, change.props)
      [] change.kind = "ValueAdded" ->
            apply_value_added(t, change.path, change.name, change.value, options)
      [] change.kind = "ValueDeleted" ->
            apply_value_deleted(t, change.path, change.name, options)
      [] change.kind = "ValueModified" ->
            apply_value_modified(t, change.path, change.name, change.old_value,
                                 change.new_value, options)

---------------------------------------------------------------------------
(* Text: the str operations the codecs use *)

NEWLINE == 10
QUOTE == 34

\* char::is_whitespace, on the ASCII range
is_whitespace(c) == c \in {9, 10, 11, 12, 13, 32}

RECURSIVE trim_start(_)
trim_start(s) ==
    IF s # <<>> /\ is_whitespace(Head(s)) THEN trim_start(Tail(s)) ELSE s

RECURSIVE trim_end(_)
trim_end(s) ==
    IF s # <<>> /\ is_whitespace(s[Len(s)]) THEN trim_end(SubSeq(s, 1, Len(s) - 1)) ELSE s

trim(s) == trim_end(trim_start(s))

starts_with(s, prefix) == Len(prefix) <= Len(s) /\ SubSeq(s, 1, Len(prefix)) = prefix

ends_with(s, suffix) ==
    Len(suffix) <= Len(s) /\ SubSeq(s, Len(s) - Len(suffix) + 1, Len(s)) = suffix

\* s[n..]: what follows the first n characters
skip(s, n) == SubSeq(s, n + 1, Len(s))

\* str::find(pat): the 0-based index of the first occurrence, or None
find(s, pat) ==
    LET I == {i \in 0..(Len(s) - Len(pat)) : SubSeq(s, i + 1, i + Len(pat)) = pat}
    IN IF I = {} THEN None ELSE Some(CHOOSE i \in I : \A j \in I : i <= j)

\* str::trim_matches(c) and str::trim_end_matches(c)
RECURSIVE trim_start_matches(_, _)
trim_start_matches(s, c) ==
    IF s # <<>> /\ Head(s) = c THEN trim_start_matches(Tail(s), c) ELSE s

RECURSIVE trim_end_matches(_, _)
trim_end_matches(s, c) ==
    IF s # <<>> /\ s[Len(s)] = c THEN trim_end_matches(SubSeq(s, 1, Len(s) - 1), c) ELSE s

trim_matches(s, c) == trim_end_matches(trim_start_matches(s, c), c)

\* str::split(c): the pieces between the occurrences of c
RECURSIVE split(_, _)
split(s, c) ==
    LET at == {i \in 1..Len(s) : s[i] = c}
    IN IF at = {} THEN <<s>>
       ELSE LET first == CHOOSE i \in at : \A j \in at : i <= j
            IN <<SubSeq(s, 1, first - 1)>> \o split(SubSeq(s, first + 1, Len(s)), c)

RECURSIVE strip_cr(_)
strip_cr(ls) ==
    IF ls = <<>> THEN <<>>
    ELSE <<IF Head(ls) # <<>> /\ Head(ls)[Len(Head(ls))] = 13
           THEN SubSeq(Head(ls), 1, Len(Head(ls)) - 1) ELSE Head(ls)>> \o strip_cr(Tail(ls))

\* str::lines: split on '\n', a final empty piece dropped, a trailing '\r'
\* of each line removed
lines(text) ==
    LET parts == split(text, NEWLINE)
        kept == IF parts[Len(parts)] = <<>> THEN SubSeq(parts, 1, Len(parts) - 1) ELSE parts
    IN strip_cr(kept)

\* str::replace(from, to), left to right, without overlap
RECURSIVE replace(_, _, _)
replace(s, from, to) ==
    IF s = <<>> THEN <<>>
    ELSE IF starts_with(s, from) THEN to \o replace(skip(s, Len(from)), from, to)
    ELSE <<Head(s)>> \o replace(Tail(s), from, to)

\* The value of a digit character in the radix, or 99 when it is none.
digit_value(c, radix) ==
    LET v == IF c >= 48 /\ c <= 57 THEN c - 48
             ELSE IF c >= 97 /\ c <= 122 THEN c - 97 + 10
             ELSE IF c >= 65 /\ c <= 90 THEN c - 65 + 10
             ELSE 99
    IN IF v < radix THEN v ELSE 99

RECURSIVE radix_acc(_, _, _)
radix_acc(s, radix, acc) ==
    IF s = <<>> THEN acc
    ELSE LET step(next) == IF next = <<>> THEN next ELSE radix_acc(Tail(s), radix, next)
         IN step(big_add(big_mul(acc, from_nat(radix)),
                         from_nat(digit_value(Head(s), radix))))

\* uN::from_str_radix(s, radix) and str::parse::<uN>() (radix 10): an optional
\* '+', then digits only; Some(value), or None when the text is no number
\* or the value is above max.
from_str_radix(s, radix, max) ==
    LET digits == IF s # <<>> /\ Head(s) = 43 THEN Tail(s) ELSE s
    IN IF digits = <<>> \/ \E i \in 1..Len(digits) : digit_value(digits[i], radix) = 99
       THEN None
       ELSE LET checked(v) == IF big_lt(max, v) THEN None ELSE Some(v)
            IN checked(radix_acc(digits, radix, <<0>>))

U32_MAX == <<4, 2, 9, 4, 9, 6, 7, 2, 9, 5>>
U8_MAX == <<2, 5, 5>>

\* A u64 small enough to be a natural number of the model.
RECURSIVE to_nat_acc(_, _)
to_nat_acc(d, acc) == IF d = <<>> THEN acc ELSE to_nat_acc(Tail(d), acc * 10 + Head(d))

to_nat(d) == to_nat_acc(d, 0)

\* u64::to_string
RECURSIVE to_string(_)
to_string(d) == IF d = <<>> THEN <<>> ELSE <<48 + Head(d)>> \o to_string(Tail(d))

hex_char(v) == IF v < 10 THEN 48 + v ELSE 97 + v - 10

\* format!("{:x}", d)
RECURSIVE format_x(_)
format_x(d) ==
    LET digits(qr) ==
            (IF qr.quot = <<0>> THEN <<>> ELSE format_x(qr.quot)) \o <<hex_char(to_nat(qr.rem))>>
    IN digits(big_divmod(d, <<1, 6>>))

\* format!("{:0width$x}", d)
RECURSIVE pad_zeros(_, _)
pad_zeros(s, width) == IF Len(s) >= width THEN s ELSE pad_zeros(<<48>> \o s, width)

format_0x(d, width) == pad_zeros(format_x(d), width)

---------------------------------------------------------------------------
(* The parser: registry_parser.rs *)

\* Result<T, E>; a panic of the call is a third outcome.
Ok(v) == [tag |-> "Ok", val |-> v]
Err(e) == [tag |-> "Err", err |-> e]
Panicked == [tag |-> "Panic"]

REG_BINARY == 3

\* unescape_string, from the 0-based index i on
RECURSIVE unescape_from(_, _)
unescape_from(chars, i) ==
    IF i >= Len(chars) THEN <<>>
    ELSE LET c == chars[i + 1]
         IN IF c = BACKSLASH /\ i + 1 < Len(chars)
            THEN LET next == chars[i + 2]
                     out == CASE next = 110 -> 10      \* 'n'
                              [] next = 114 -> 13      \* 'r'
                              [] next = 116 -> 9       \* 't'
                              [] next = 48 -> 0        \* '0'
                              [] OTHER -> next
                 IN <<out>> \o unescape_from(chars, i + 2)
            ELSE <<c>> \o unescape_from(chars, i + 1)

unescape_string(s) == unescape_from(s, 0)

\* s.replace("\\\\", "\\")
unescape_key_path(s) == replace(s, <<BACKSLASH, BACKSLASH>>, <<BACKSLASH>>)

\* parse_quoted_string; &trimmed[1..trimmed.len() - 1] panics on a lone quote
parse_quoted_string(data) ==
    LET trimmed == trim(data)
    IN IF ~starts_with(trimmed, <<QUOTE>>) \/ ~ends_with(trimmed, <<QUOTE>>)
       THEN Err("expected quoted string")
       ELSE IF Len(trimmed) = 1 THEN Panicked
       ELSE Ok(unescape_string(SubSeq(trimmed, 2, Len(trimmed) - 1)))

\* parse_hex_bytes
RECURSIVE hex_parts(_, _)
hex_parts(parts, bytes) ==
    IF parts = <<>> THEN Ok(bytes)
    ELSE LET trimmed == trim(Head(parts))
             push(next) == IF next = <<>> THEN Ok(next) ELSE hex_parts(Tail(parts), next)
             parsed(byte) ==
                 IF byte = None THEN Err("ParseIntError")
                 ELSE push(Append(bytes, to_nat(byte[1])))
         IN IF trimmed = <<>> THEN hex_parts(Tail(parts), bytes)
            ELSE parsed(from_str_radix(trimmed, 16, U8_MAX))

parse_hex_bytes(s) == hex_parts(split(s, 44), <<>>)

\* u64::from_le_bytes
RECURSIVE from_le_bytes(_)
from_le_bytes(bytes) ==
    IF bytes = <<>> THEN <<0>>
    ELSE LET shifted(high) ==
                 IF high = <<>> THEN high
                 ELSE big_add(from_nat(Head(bytes)), big_mul(high, <<2, 5, 6>>))
         IN shifted(from_le_bytes(Tail(bytes)))

STR_2 == <<115, 116, 114, 40, 50, 41, 58>>
STR_7 == <<115, 116, 114, 40, 55, 41, 58>>
DWORD_PREFIX == <<100, 119, 111, 114, 100, 58>>
QWORD_PREFIX == <<113, 119, 111, 114, 100, 58>>
HEX_TYPED == <<104, 101, 120, 40>>
HEX_PREFIX == <<104, 101, 120, 58>>
HEX_B == <<104, 101, 120, 40, 98, 41, 58>>

\* parse_value_data
parse_value_data(data, name) ==
    LET expand(s) == IF s.tag # "Ok" THEN s ELSE Ok(RegistryValue(name, DExpandString(s.val)))
        multi(s) ==
            IF s.tag # "Ok" THEN s
            ELSE Ok(RegistryValue(name,
                      DMultiString(SelectSeq(split(s.val, 0), LAMBDA v : v # <<>>))))
        dword(val) ==
            IF val = None THEN Err("ParseIntError")
            ELSE Ok(RegistryValue(name, DDword(to_nat(val[1]))))
        qword(val) ==
            IF val = None THEN Err("ParseIntError")
            ELSE Ok(RegistryValue(name, DQword(to_nat(val[1]))))
        le_qword(bytes) == Ok(RegistryValue(name, DQword(to_nat(from_le_bytes(bytes)))))
        typed_bytes(ty, bytes) ==
            IF bytes.tag # "Ok" THEN bytes
            ELSE IF ty = REG_QWORD /\ Len(bytes.val) = 8 THEN le_qword(bytes.val)
            ELSE Ok(RegistryValue(name, DBinary(bytes.val, ty)))
        typed(ty, end) ==
            IF ty = None THEN Err("ParseIntError")
            ELSE typed_bytes(to_nat(ty[1]), parse_hex_bytes(skip(data, end + 2)))
        binary(bytes) ==
            IF bytes.tag # "Ok" THEN bytes
            ELSE Ok(RegistryValue(name, DBinary(bytes.val, REG_BINARY)))
        hex_b(bytes) ==
            IF bytes.tag # "Ok" THEN bytes
            ELSE IF Len(bytes.val) = 8 THEN le_qword(bytes.val)
            ELSE Ok(RegistryValue(name, DBinary(bytes.val, REG_QWORD)))
        string(s) == IF s.tag # "Ok" THEN s ELSE Ok(RegistryValue(name, DString(s.val)))
    IN IF starts_with(data, STR_2)
       THEN expand(parse_quoted_string(skip(data, Len(STR_2))))
       ELSE IF starts_with(data, STR_7)
       THEN multi(parse_quoted_string(skip(data, Len(STR_7))))
       ELSE IF starts_with(data, DWORD_PREFIX)
       THEN dword(from_str_radix(trim(skip(data, Len(DWORD_PREFIX))), 16, U32_MAX))
       ELSE IF starts_with(data, QWORD_PREFIX)
       THEN qword(from_str_radix(trim(skip(data, Len(QWORD_PREFIX))), 16, U64_MAX))
       ELSE IF starts_with(data, HEX_TYPED)
       THEN LET end == find(data, <<41, 58>>)    \* "):"
            IN IF end = None THEN Err("malformed hex type")
               ELSE typed(from_str_radix(SubSeq(data, 5, end[1]), 16, U32_MAX), end[1])
       ELSE IF starts_with(data, HEX_PREFIX)
       THEN binary(parse_hex_bytes(skip(data, Len(HEX_PREFIX))))
       ELSE IF starts_with(data, HEX_B)
       THEN hex_b(parse_hex_bytes(skip(data, Len(HEX_B))))
       ELSE string(parse_quoted_string(data))

\* parse_value_line: the while loop that joins the continuation lines
RECURSIVE join_continuations(_, _, _)
join_continuations(buffer, rest, consumed) ==
    IF ends_with(trim_end(buffer), <<BACKSLASH>>)
    THEN LET cut == trim_end(trim_end_matches(buffer, BACKSLASH))
         IN IF consumed >= Len(rest) THEN [buffer |-> cut, consumed |-> consumed]
            ELSE LET next == cut \o trim(rest[consumed + 1])
                 IN IF next = cut THEN join_continuations(next, rest, consumed + 1)
                    ELSE join_continuations(next, rest, consumed + 1)
    ELSE [buffer |-> buffer, consumed |-> consumed]

\* parse_value_line: the 0-based index of the quote that closes the name
RECURSIVE name_end(_, _)
name_end(bytes, i) ==
    IF i >= Len(bytes) THEN i
    ELSE IF bytes[i + 1] = BACKSLASH THEN name_end(bytes, i + 2)
    ELSE IF bytes[i + 1] = QUOTE THEN i
    ELSE name_end(bytes, i + 1)

\* parse_value_line: Ok of the value and the number of lines consumed
parse_value_line(first_line, rest) ==
    LET result(value, consumed) ==
            IF value.tag # "Ok" THEN value
            ELSE Ok([value |-> value.val, consumed |-> consumed])
        data_after(after, name, consumed) ==
            result(parse_value_data(IF starts_with(after, <<61>>)      \* '='
                                    THEN trim_start(skip(after, 1)) ELSE after,
                                    name),
                   consumed)
        named(buffer, cursor, consumed) ==
            IF cursor >= Len(buffer) THEN Err("unterminated value name")
            ELSE data_after(trim_start(skip(buffer, cursor + 1)),
                            unescape_string(SubSeq(buffer, 2, cursor)), consumed)
        value_of(buffer, consumed) ==
            IF starts_with(buffer, <<64, 61>>)                   \* "@="
            THEN data_after(trim_start(skip(buffer, 2)), <<>>, consumed)
            ELSE IF starts_with(buffer, <<QUOTE>>)
            THEN named(buffer, name_end(buffer, 1), consumed)
            ELSE Err("invalid value line")
        joined_value(joined) == value_of(joined.buffer, joined.consumed)
    IN joined_value(join_continuations(trim_end(first_line), rest, 0))

\* parse_key_header: Ok of the key path and the timestamp
parse_key_header(line) ==
    IF ~starts_with(line, <<91>>) \/ find(line, <<93>>) = None   \* '[', ']'
    THEN Err("malformed key header")
    ELSE LET end == find(line, <<93>>)[1]
             key_path == trim(SubSeq(line, 2, end))
             rest == trim(skip(line, end + 1))
             timestamp(parsed) == IF rest = <<>> \/ parsed = None THEN <<0>> ELSE parsed[1]
         IN Ok([path |-> key_path, timestamp |-> timestamp(from_str_radix(rest, 10, U64_MAX))])

HEADER == <<87, 73, 78, 69, 32, 82, 69, 71, 73, 83, 84, 82, 89, 32, 86, 101, 114, 115, 105, 111, 110, 32, 50>>
RELATIVE_PREFIX == <<59, 59, 32, 65, 108, 108, 32, 107, 101, 121, 115, 32, 114, 101, 108, 97, 116, 105, 118, 101, 32, 116, 111, 32>>
ARCH_PREFIX == <<35, 97, 114, 99, 104, 61>>
TIME_PREFIX == <<35, 116, 105, 109, 101, 61>>
CLASS_PREFIX == <<35, 99, 108, 97, 115, 115, 61>>
LINK_PREFIX == <<35, 108, 105, 110, 107>>

RECURSIVE to_ascii_lowercase(_)
to_ascii_lowercase(s) ==
    IF s = <<>> THEN <<>>
    ELSE <<IF Head(s) >= 65 /\ Head(s) <= 90 THEN Head(s) + 32 ELSE Head(s)>>
         \o to_ascii_lowercase(Tail(s))

\* Architecture::from_tag
from_tag(tag) ==
    IF to_ascii_lowercase(tag) = <<119, 105, 110, 51, 50>> THEN Some("Win32")
    ELSE IF to_ascii_lowercase(tag) = <<119, 105, 110, 54, 52>> THEN Some("Win64")
    ELSE None

\* RegistryKey::set_value_for_loading: no mark_dirty
set_value_for_loading(t, p, name, value) ==
    [t EXCEPT ![p].values = MapInsert(@, normalize(name), value)]

\* load_from_text: the while loop, from the 0-based line_idx on.  st holds
\* root, relative_base, architecture and current_key.
RECURSIVE load_lines(_, _, _, _)
load_lines(ls, idx, st, overflow_checks) ==
    IF idx >= Len(ls)
    THEN Ok([root_key |-> st.root, relative_base |-> st.relative_base,
             architecture |-> st.architecture])
    ELSE
    LET trimmed == trim(ls[idx + 1])
        line_idx == idx + 1
    IN IF trimmed = <<>> THEN load_lines(ls, line_idx, st, overflow_checks)
       ELSE IF starts_with(trimmed, RELATIVE_PREFIX)
       THEN load_lines(ls, line_idx,
                       [st EXCEPT !.relative_base = skip(trimmed, Len(RELATIVE_PREFIX))],
                       overflow_checks)
       ELSE IF starts_with(trimmed, <<59>>)                      \* ';'
       THEN load_lines(ls, line_idx, st, overflow_checks)
       ELSE IF starts_with(trimmed, ARCH_PREFIX)
       THEN LET a == from_tag(skip(trimmed, Len(ARCH_PREFIX)))
            IN load_lines(ls, line_idx,
                          IF a = None THEN st ELSE [st EXCEPT !.architecture = a[1]],
                          overflow_checks)
       ELSE IF starts_with(trimmed, <<91>>)                      \* '['
       THEN LET stamped(created, filetime) ==
                    IF filetime.panic THEN Panicked
                    ELSE load_lines(ls, line_idx,
                           [st EXCEPT
                              !.root = [created.tree EXCEPT
                                          ![created.node].modification_time = filetime.value],
                              !.current_key = Some(created.node)],
                           overflow_checks)
                key_header(header) ==
                    IF header.tag # "Ok"
                    THEN Err([kind |-> "Line", line |-> line_idx, msg |-> header.err])
                    ELSE stamped(create_key_recursive(st.root, <<>>,
                                                      unescape_key_path(header.val.path)),
                                 timestamp_to_filetime(header.val.timestamp, overflow_checks))
            IN key_header(parse_key_header(trimmed))
       ELSE IF starts_with(trimmed, TIME_PREFIX)
       THEN LET timed(val) ==
                    load_lines(ls, line_idx,
                               IF st.current_key = None \/ val = None THEN st
                               ELSE [st EXCEPT !.root[st.current_key[1]].modification_time = val[1]],
                               overflow_checks)
            IN timed(from_str_radix(trim(skip(trimmed, Len(TIME_PREFIX))), 16, U64_MAX))
       ELSE IF starts_with(trimmed, CLASS_PREFIX)
       THEN LET cls == trim(skip(trimmed, Len(CLASS_PREFIX)))
                unquoted == trim_matches(cls, QUOTE)
            IN load_lines(ls, line_idx,
                          IF st.current_key = None THEN st
                          ELSE [st EXCEPT !.root[st.current_key[1]].class_name =
                                              Some(unescape_string(unquoted))],
                          overflow_checks)
       ELSE IF starts_with(trimmed, LINK_PREFIX)
       THEN load_lines(ls, line_idx,
                       IF st.current_key = None THEN st
                       ELSE [st EXCEPT !.root[st.current_key[1]].is_symlink = TRUE],
                       overflow_checks)
       ELSE IF starts_with(trimmed, <<64>>) \/ starts_with(trimmed, <<QUOTE>>)   \* '@'
       THEN LET value_line(parsed) ==
                    IF parsed.tag = "Panic" THEN Panicked
                    ELSE IF parsed.tag = "Err"
                    THEN Err([kind |-> "Line", line |-> line_idx, msg |-> parsed.err])
                    ELSE IF st.current_key = None
                    THEN Err([kind |-> "Line", line |-> line_idx, msg |-> "value without key"])
                    ELSE load_lines(ls, line_idx + parsed.val.consumed,
                           [st EXCEPT !.root = set_value_for_loading(
                                                  @, st.current_key[1],
                                                  parsed.val.value.name, parsed.val.value)],
                           overflow_checks)
            IN value_line(parse_value_line(trimmed, skip(ls, line_idx)))
       ELSE load_lines(ls, line_idx, st, overflow_checks)

\* RegistryParser::load_from_text
load_from_text(text, overflow_checks) ==
    LET ls == lines(text)
    IN IF ls = <<>> THEN Err([kind |-> "InvalidHeader"])
       ELSE IF trim(ls[1]) # HEADER THEN Err([kind |-> "InvalidHeader"])
       ELSE load_lines(ls, 1,
                       [root |-> create_root, relative_base |-> <<>>,
                        architecture |-> "Unknown", current_key |-> None],
                       overflow_checks)

---------------------------------------------------------------------------
(* The writer: registry_writer.rs *)

\* escape_string
RECURSIVE escape_string(_)
escape_string(s) ==
    IF s = <<>> THEN <<>>
    ELSE (CASE Head(s) = BACKSLASH -> <<BACKSLASH, BACKSLASH>>
            [] Head(s) = QUOTE -> <<BACKSLASH, QUOTE>>
            [] Head(s) = NEWLINE -> <<BACKSLASH, 110>>
            [] Head(s) = 13 -> <<BACKSLASH, 114>>
            [] Head(s) = 9 -> <<BACKSLASH, 116>>
            [] Head(s) = 0 -> <<BACKSLASH, 48>>
            [] OTHER -> <<Head(s)>>) \o escape_string(Tail(s))

\* parts.join(sep)
RECURSIVE join(_, _)
join(parts, sep) ==
    IF parts = <<>> THEN <<>>
    ELSE IF Len(parts) = 1 THEN parts[1]
    ELSE parts[1] \o sep \o join(Tail(parts), sep)

\* dump_path: the loop that follows the parent references, innermost name first.
RECURSIVE path_parts(_, _)
path_parts(t, current) ==
    IF current = None THEN <<>>
    ELSE LET key == t[current[1]]
         IN IF key.name = <<>> THEN path_parts(t, key.parent)
            ELSE <<key.name>> \o path_parts(t, key.parent)

dump_path(t, node) ==
    IF node = <<>> THEN <<>>
    ELSE join(Reverse(path_parts(t, Some(node))), <<BACKSLASH, BACKSLASH>>)

\* write_hex_bytes: the loop from byte idx + 1 on.
RECURSIVE hex_bytes_from(_, _, _)
hex_bytes_from(bytes, idx, line_count) ==
    IF idx >= Len(bytes) THEN <<NEWLINE>>
    ELSE LET last == idx + 1 = Len(bytes)
             count == line_count + 2 + (IF last THEN 0 ELSE 1)
             wrap == count >= 76 /\ ~last
         IN format_0x(from_nat(bytes[idx + 1]), 2)
            \o (IF last THEN <<>> ELSE <<44>>)
            \o (IF wrap THEN <<BACKSLASH, NEWLINE, 32, 32>> ELSE <<>>)
            \o hex_bytes_from(bytes, idx + 1, IF wrap THEN 2 ELSE count)

write_hex_bytes(bytes, line_count) == hex_bytes_from(bytes, 0, line_count)

\* dump_value: the MultiString arm
RECURSIVE combined(_, _)
combined(values, idx) ==
    IF idx >= Len(values) THEN <<BACKSLASH, 48>>
    ELSE (IF idx > 0 THEN <<BACKSLASH, 48>> ELSE <<>>)
         \o escape_string(values[idx + 1]) \o combined(values, idx + 1)

\* dump_value
dump_value(value) ==
    (IF value.name = <<>> THEN <<64, 61>>
     ELSE <<QUOTE>> \o escape_string(value.name) \o <<QUOTE, 61>>)
    \o (CASE value.data.tag = "String" ->
                <<QUOTE>> \o escape_string(value.data.s) \o <<QUOTE, NEWLINE>>
          [] value.data.tag = "ExpandString" ->
                STR_2 \o <<QUOTE>> \o escape_string(value.data.s) \o <<QUOTE, NEWLINE>>
          [] value.data.tag = "MultiString" ->
                STR_7 \o <<QUOTE>> \o combined(value.data.items, 0) \o <<QUOTE, NEWLINE>>
          [] value.data.tag = "Dword" ->
                DWORD_PREFIX \o format_0x(from_nat(value.data.n), 8) \o <<NEWLINE>>
          [] value.data.tag = "Qword" ->
                HEX_B \o write_hex_bytes(to_le_bytes(value.data.n, 8), 5)
          [] value.data.tag = "Binary" ->
                IF value.data.ty = REG_BINARY
                THEN HEX_PREFIX \o write_hex_bytes(value.data.bytes, 4)
                ELSE HEX_TYPED \o format_x(from_nat(value.data.ty)) \o <<41, 58>>
                     \o write_hex_bytes(value.data.bytes, 6))

RECURSIVE dump_values(_, _)
dump_values(values, names) ==
    IF names = <<>> THEN <<>>
    ELSE dump_value(values[Head(names)]) \o dump_values(values, Tail(names))

\* A block condition that forgets the leaves and the metadata.
needs_block_values(t, node) == DOMAIN t[node].values # {}

\* write_subkeys: if !values.is_empty() || subkeys.is_empty() || has_meta
needs_block(t, node) ==
    LET has_meta == t[node].class_name # None \/ t[node].is_symlink
    IN DOMAIN t[node].values # {} \/ subkey_names(t, node) = {} \/ has_meta

\* write_subkeys: the block of one key, Ok(text) or a panic of the subtraction
\* in filetime_to_timestamp.
write_block(t, node, overflow_checks) ==
    LET key == t[node]
        block(timestamp) ==
            IF timestamp.panic THEN Panicked
            ELSE Ok(<<NEWLINE, 91>> \o dump_path(t, node) \o <<93, 32>>
                    \o to_string(timestamp.value) \o <<NEWLINE>>
                    \o TIME_PREFIX \o format_x(key.modification_time) \o <<NEWLINE>>
                    \o (IF key.class_name # None
                        THEN CLASS_PREFIX \o <<QUOTE>> \o escape_string(key.class_name[1])
                             \o <<QUOTE, NEWLINE>>
                        ELSE <<>>)
                    \o (IF key.is_symlink THEN LINK_PREFIX \o <<NEWLINE>> ELSE <<>>)
                    \o dump_values(key.values, SortedSeq(DOMAIN key.values)))
    IN IF needs_block(t, node)
       THEN block(filetime_to_timestamp(key.modification_time, overflow_checks))
       ELSE Ok(<<>>)

\* write_subkeys, and its for loop over the subkeys still to write
RECURSIVE write_subkeys(_, _, _)
RECURSIVE write_subs(_, _, _, _)
write_subkeys(t, node, overflow_checks) ==
    IF t[node].is_volatile THEN Ok(<<>>)
    ELSE LET with_subs(block, subs) ==
                 IF subs.tag # "Ok" THEN subs ELSE Ok(block.val \o subs.val)
             with_block(block) ==
                 IF block.tag # "Ok" THEN block
                 ELSE with_subs(block, write_subs(t, node, SortedSeq(subkey_names(t, node)),
                                                  overflow_checks))
         IN with_block(write_block(t, node, overflow_checks))

write_subs(t, node, names, overflow_checks) ==
    IF names = <<>> THEN Ok(<<>>)
    ELSE LET with_rest(first, rest) ==
                 IF rest.tag # "Ok" THEN rest ELSE Ok(first.val \o rest.val)
             with_first(first) ==
                 IF first.tag # "Ok" THEN first
                 ELSE with_rest(first, write_subs(t, node, Tail(names), overflow_checks))
         IN with_first(write_subkeys(t, Append(node, Head(names)), overflow_checks))

\* RegistryWriter::write_to_string (write_all) of a writer with the given fields
write_to_string(relative_base, architecture, root, overflow_checks) ==
    LET file(body) ==
            IF body.tag # "Ok" THEN body
            ELSE Ok(HEADER \o <<NEWLINE>>
                    \o (IF relative_base # <<>>
                        THEN RELATIVE_PREFIX \o relative_base \o <<NEWLINE>> ELSE <<>>)
                    \o (CASE architecture = "Win32" -> <<NEWLINE>> \o ARCH_PREFIX \o <<119, 105, 110, 51, 50, 10>>
                          [] architecture = "Win64" -> <<NEWLINE>> \o ARCH_PREFIX \o <<119, 105, 110, 54, 52, 10>>
                          [] OTHER -> <<>>)
                    \o body.val)
    IN file(write_subkeys(root, <<>>, overflow_checks))

---------------------------------------------------------------------------
(* The textual diff: registry_text_diff.rs *)

\* parent_path and leaf_name are rsplit_parent and rsplit_name.
join_path(base, name) == IF base = <<>> THEN name ELSE base \o <<BACKSLASH>> \o name

\* escape_string of the diff exporter: a chain of str::replace
diff_escape_string(s) ==
    replace(replace(replace(replace(replace(s,
        <<BACKSLASH>>, <<BACKSLASH, BACKSLASH>>),
        <<QUOTE>>, <<BACKSLASH, QUOTE>>),
        <<NEWLINE>>, <<BACKSLASH, 110>>),
        <<13>>, <<BACKSLASH, 114>>),
        <<9>>, <<BACKSLASH, 116>>)

quoted(s) == <<QUOTE>> \o diff_escape_string(s) \o <<QUOTE>>

NULL_TEXT == <<110, 117, 108, 108>>

format_property(v) == IF v = None THEN NULL_TEXT ELSE quoted(v[1])

format_bool(b) == IF b THEN <<116, 114, 117, 101>> ELSE <<102, 97, 108, 115, 101>>

RECURSIVE quoted_items(_)
quoted_items(vs) ==
    IF vs = <<>> THEN <<>> ELSE <<quoted(Head(vs))>> \o quoted_items(Tail(vs))

RECURSIVE hex_items(_)
hex_items(bytes) ==
    IF bytes = <<>> THEN <<>>
    ELSE <<format_0x(from_nat(Head(bytes)), 2)>> \o hex_items(Tail(bytes))

format_value_data(value) ==
    CASE value.data.tag = "String" -> <<115, 116, 114, 105, 110, 103, 58>> \o quoted(value.data.s)
      [] value.data.tag = "ExpandString" -> <<101, 120, 112, 97, 110, 100, 95, 115, 116, 114, 105, 110, 103, 58>> \o quoted(value.data.s)
      [] value.data.tag = "MultiString" ->
            <<109, 117, 108, 116, 105, 95, 115, 116, 114, 105, 110, 103, 58, 91>> \o join(quoted_items(value.data.items), <<44>>) \o <<93>>
      [] value.data.tag = "Dword" -> DWORD_PREFIX \o format_0x(from_nat(value.data.n), 8)
      [] value.data.tag = "Qword" -> QWORD_PREFIX \o format_0x(from_nat(value.data.n), 16)
      [] value.data.tag = "Binary" ->
            (IF value.data.ty = REG_BINARY THEN HEX_PREFIX
             ELSE HEX_TYPED \o format_x(from_nat(value.data.ty)) \o <<41, 58>>)
            \o join(hex_items(value.data.bytes), <<44>>)

format_value(name, value) == quoted(name) \o <<61>> \o format_value_data(value)

ARROW == <<45, 62>>

\* export: the lines of one property change of a KeyModified
export_prop(prop) ==
    CASE prop.prop = "ClassNameChange" ->
            <<126, 99, 108, 97, 115, 115, 78, 97, 109, 101, 58>> \o format_property(prop.old) \o ARROW
            \o format_property(prop.new) \o <<NEWLINE>>
      [] prop.prop = "SymlinkChange" ->
            <<126, 105, 115, 83, 121, 109, 108, 105, 110, 107, 58>> \o format_bool(prop.old) \o ARROW \o format_bool(prop.new)
            \o <<NEWLINE>>
      [] prop.prop = "VolatileChange" ->
            <<126, 105, 115, 86, 111, 108, 97, 116, 105, 108, 101, 58>> \o format_bool(prop.old) \o ARROW \o format_bool(prop.new)
            \o <<NEWLINE>>

\* export: the lines of one change
export_change(c) ==
    CASE c.kind = "KeyAdded" -> <<43, 107, 101, 121, 58>> \o rsplit_name(c.path) \o <<NEWLINE>>
      [] c.kind = "KeyDeleted" -> <<45, 107, 101, 121, 58>> \o rsplit_name(c.path) \o <<NEWLINE>>
      [] c.kind = "KeyModified" ->
            Flatten([i \in 1..Len(c.props) |-> export_prop(c.props[i])])
      [] c.kind = "ValueAdded" -> <<43>> \o format_value(c.name, c.value) \o <<NEWLINE>>
      [] c.kind = "ValueDeleted" -> <<45>> \o format_value(c.name, c.value) \o <<NEWLINE>>
      [] c.kind = "ValueModified" ->
            <<126>> \o quoted(c.name) \o <<61>> \o format_value_data(c.old_value)
            \o ARROW \o format_value_data(c.new_value) \o <<NEWLINE>>

\* export: the key of the group a change is filed under
group_key(c) ==
    IF c.kind \in {"KeyAdded", "KeyDeleted"} THEN rsplit_parent(c.path) ELSE c.path

\* export: the section of one group
export_group(path, changes) ==
    (IF path = <<>> THEN <<91, 82, 79, 79, 84, 93>> ELSE <<91>> \o path \o <<93>>) \o <<NEWLINE>>
    \o Flatten([i \in 1..Len(changes) |->
                   IF group_key(changes[i]) = path THEN export_change(changes[i]) ELSE <<>>])
    \o <<NEWLINE>>

\* TextDiffExporter::export without file names; generated is what the clock
\* gave for the "# Generated:" line.
export(changes, generated) ==
    <<35, 32, 82, 101, 103, 105, 115, 116, 114, 121, 32, 80, 97, 116, 99, 104, 32, 70, 105, 108, 101, 10, 35, 32, 71, 101, 110, 101, 114, 97, 116, 101, 100, 58, 32>> \o generated \o <<NEWLINE, NEWLINE>>
    \o (IF changes = <<>> THEN <<35, 32, 78, 111, 32, 99, 104, 97, 110, 103, 101, 115, 10>>
        ELSE LET paths == SortedSeq({group_key(changes[i]) : i \in 1..Len(changes)})
             IN Flatten([i \in 1..Len(paths) |-> export_group(paths[i], changes)]))

\* split_arrow
split_arrow(s) ==
    LET pos == find(s, ARROW)
    IN IF pos = None THEN Err("missing ->")
       ELSE Ok([old |-> SubSeq(s, 1, pos[1]), new |-> skip(s, pos[1] + 2)])

parse_property_value(t) ==
    IF trim(t) = NULL_TEXT THEN None ELSE Some(trim_matches(trim(t), QUOTE))

\* str::parse::<bool>
parse_bool(s) ==
    IF s = <<116, 114, 117, 101>> THEN Some(TRUE) ELSE IF s = <<102, 97, 108, 115, 101>> THEN Some(FALSE) ELSE None

\* unescape of the diff parser: a backslash that ends the text is dropped
RECURSIVE unescape(_)
unescape(s) ==
    IF s = <<>> THEN <<>>
    ELSE IF Head(s) = BACKSLASH
    THEN IF Len(s) = 1 THEN <<>>
         ELSE <<(CASE s[2] = 110 -> 10
                   [] s[2] = 114 -> 13
                   [] s[2] = 116 -> 9
                   [] s[2] = 48 -> 0
                   [] OTHER -> s[2])>> \o unescape(skip(s, 2))
    ELSE <<Head(s)>> \o unescape(Tail(s))

\* parse_hex_bytes of the diff parser: an empty part is an error
RECURSIVE diff_hex_parts(_)
diff_hex_parts(parts) ==
    IF parts = <<>> THEN Ok(<<>>)
    ELSE LET bytes(byte, rest) ==
                 IF byte = None THEN Err("ParseIntError")
                 ELSE IF rest.tag # "Ok" THEN rest
                 ELSE Ok(<<to_nat(byte[1])>> \o rest.val)
         IN bytes(from_str_radix(trim(Head(parts)), 16, U8_MAX), diff_hex_parts(Tail(parts)))

diff_parse_hex_bytes(data) ==
    IF trim(data) = <<>> THEN Ok(<<>>) ELSE diff_hex_parts(split(data, 44))

\* trim_matches(['[', ']'])
RECURSIVE trim_brackets(_)
trim_brackets(s) ==
    IF s # <<>> /\ Head(s) \in {91, 93} THEN trim_brackets(Tail(s))
    ELSE IF s # <<>> /\ s[Len(s)] \in {91, 93} THEN trim_brackets(SubSeq(s, 1, Len(s) - 1))
    ELSE s

\* parse_value_data_part: the values pushed by the loop over inner.split(',')
RECURSIVE multi_items(_)
multi_items(parts) ==
    IF parts = <<>> THEN <<>>
    ELSE <<unescape(trim_matches(trim(Head(parts)), QUOTE))>> \o multi_items(Tail(parts))

\* parse_value_data_part
parse_value_data_part(data) ==
    LET trimmed == trim(data)
        after(prefix) == skip(trimmed, Len(prefix))
        dword(v) ==
            IF v = None THEN Err("ParseIntError")
            ELSE Ok(RegistryValue(<<>>, DDword(to_nat(v[1]))))
        qword(v) ==
            IF v = None THEN Err("ParseIntError")
            ELSE Ok(RegistryValue(<<>>, DQword(to_nat(v[1]))))
        typed(ty, bytes) ==
            IF ty = None THEN Err("ParseIntError")
            ELSE IF bytes.tag # "Ok" THEN bytes
            ELSE Ok(RegistryValue(<<>>, DBinary(bytes.val, to_nat(ty[1]))))
        binary(bytes) ==
            IF bytes.tag # "Ok" THEN bytes
            ELSE Ok(RegistryValue(<<>>, DBinary(bytes.val, REG_BINARY)))
    IN IF starts_with(trimmed, <<115, 116, 114, 105, 110, 103, 58>>)
       THEN Ok(RegistryValue(<<>>,
                 DString(unescape(trim_matches(trim(after(<<115, 116, 114, 105, 110, 103, 58>>)), QUOTE)))))
       ELSE IF starts_with(trimmed, <<101, 120, 112, 97, 110, 100, 95, 115, 116, 114, 105, 110, 103, 58>>)
       THEN Ok(RegistryValue(<<>>,
                 DExpandString(unescape(trim_matches(trim(after(<<101, 120, 112, 97, 110, 100, 95, 115, 116, 114, 105, 110, 103, 58>>)), QUOTE)))))
       ELSE IF starts_with(trimmed, <<109, 117, 108, 116, 105, 95, 115, 116, 114, 105, 110, 103, 58>>)
       THEN LET inner == trim_brackets(trim(after(<<109, 117, 108, 116, 105, 95, 115, 116, 114, 105, 110, 103, 58>>)))
            IN Ok(RegistryValue(<<>>,
                    DMultiString(IF inner = <<>> THEN <<>> ELSE multi_items(split(inner, 44)))))
       ELSE IF starts_with(trimmed, DWORD_PREFIX)
       THEN dword(from_str_radix(trim(after(DWORD_PREFIX)), 16, U32_MAX))
       ELSE IF starts_with(trimmed, QWORD_PREFIX)
       THEN qword(from_str_radix(trim(after(QWORD_PREFIX)), 16, U64_MAX))
       ELSE IF starts_with(trimmed, HEX_TYPED)
       THEN LET end == find(trimmed, <<41, 58>>)
            IN IF end = None THEN Err("bad hex")
               ELSE typed(from_str_radix(SubSeq(trimmed, 5, end[1]), 16, U32_MAX),
                          diff_parse_hex_bytes(skip(trimmed, end[1] + 2)))
       ELSE IF starts_with(trimmed, HEX_PREFIX)
       THEN binary(diff_parse_hex_bytes(after(HEX_PREFIX)))
       ELSE Err("unknown value format")

\* parse_value: Ok of the name and the value
parse_value(line) ==
    LET eq == find(line, <<61>>)
    IN IF eq = None THEN Err("invalid value line")
       ELSE LET named(value) ==
                    IF value.tag # "Ok" THEN value
                    ELSE Ok([name |-> unescape(trim_matches(SubSeq(line, 1, eq[1]), QUOTE)),
                             value |-> value.val])
            IN named(parse_value_data_part(skip(line, eq[1] + 1)))

\* parse_value_modification: Ok of the name, the old and the new value
parse_value_modification(line) ==
    LET eq == find(line, <<61>>)
    IN IF eq = None THEN Err("invalid modification")
       ELSE LET named(old_val, new_val) ==
                    IF old_val.tag # "Ok" THEN old_val
                    ELSE IF new_val.tag # "Ok" THEN new_val
                    ELSE Ok([name |-> unescape(trim_matches(SubSeq(line, 1, eq[1]), QUOTE)),
                             old_value |-> old_val.val, new_value |-> new_val.val])
                both(parts) ==
                    IF parts.tag # "Ok" THEN parts
                    ELSE named(parse_value_data_part(parts.val.old),
                               parse_value_data_part(parts.val.new))
            IN both(split_arrow(skip(line, eq[1] + 1)))

\* key_props.entry(path).or_default().push(prop)
push_prop(key_props, path, prop) ==
    IF path \in DOMAIN key_props
    THEN [key_props EXCEPT ![path] = Append(@, prop)]
    ELSE (path :> <<prop>>) @@ key_props

\* TextDiffParser::parse: the for loop over the lines, then the KeyModified
\* changes of key_props in the order of its paths
RECURSIVE parse_diff_lines(_, _, _, _, _)
parse_diff_lines(ls, idx, path, changes, key_props) ==
    IF idx >= Len(ls)
    THEN LET paths == SortedSeq(DOMAIN key_props)
         IN Ok(changes \o [i \in 1..Len(paths) |->
                              KeyModified(paths[i], key_props[paths[i]])])
    ELSE
    LET trimmed == trim(ls[idx + 1])
        after(prefix) == skip(trimmed, Len(prefix))
        bools(prefix) ==
            LET parts == split_arrow(after(prefix))
            IN IF parts.tag # "Ok" THEN parts
               ELSE IF parse_bool(trim(parts.val.old)) = None
                       \/ parse_bool(trim(parts.val.new)) = None
               THEN Err("line")
               ELSE Ok([old |-> parse_bool(trim(parts.val.old))[1],
                        new |-> parse_bool(trim(parts.val.new))[1]])
    IN IF trimmed = <<>> \/ starts_with(trimmed, <<35>>)
       THEN parse_diff_lines(ls, idx + 1, path, changes, key_props)
       ELSE IF starts_with(trimmed, <<91>>) /\ ends_with(trimmed, <<93>>)
       THEN IF Len(trimmed) = 1 THEN Panicked
            ELSE LET inner == SubSeq(trimmed, 2, Len(trimmed) - 1)
                 IN parse_diff_lines(ls, idx + 1,
                                     IF inner = <<82, 79, 79, 84>> THEN <<>> ELSE inner,
                                     changes, key_props)
       ELSE IF starts_with(trimmed, <<43, 107, 101, 121, 58>>)
       THEN parse_diff_lines(ls, idx + 1, path,
                Append(changes, KeyAdded(join_path(path, after(<<43, 107, 101, 121, 58>>)))), key_props)
       ELSE IF starts_with(trimmed, <<45, 107, 101, 121, 58>>)
       THEN parse_diff_lines(ls, idx + 1, path,
                Append(changes, KeyDeleted(join_path(path, after(<<45, 107, 101, 121, 58>>)))), key_props)
       ELSE IF starts_with(trimmed, <<126, 99, 108, 97, 115, 115, 78, 97, 109, 101, 58>>)
       THEN LET parts == split_arrow(after(<<126, 99, 108, 97, 115, 115, 78, 97, 109, 101, 58>>))
            IN IF parts.tag # "Ok" THEN parts
               ELSE parse_diff_lines(ls, idx + 1, path, changes,
                        push_prop(key_props, path,
                                  ClassNameChange(parse_property_value(parts.val.old),
                                                  parse_property_value(parts.val.new))))
       ELSE IF starts_with(trimmed, <<126, 105, 115, 83, 121, 109, 108, 105, 110, 107, 58>>)
       THEN LET b == bools(<<126, 105, 115, 83, 121, 109, 108, 105, 110, 107, 58>>)
            IN IF b.tag # "Ok" THEN b
               ELSE parse_diff_lines(ls, idx + 1, path, changes,
                        push_prop(key_props, path, SymlinkChange(b.val.old, b.val.new)))
       ELSE IF starts_with(trimmed, <<126, 105, 115, 86, 111, 108, 97, 116, 105, 108, 101, 58>>)
       THEN LET b == bools(<<126, 105, 115, 86, 111, 108, 97, 116, 105, 108, 101, 58>>)
            IN IF b.tag # "Ok" THEN b
               ELSE parse_diff_lines(ls, idx + 1, path, changes,
                        push_prop(key_props, path, VolatileChange(b.val.old, b.val.new)))
       ELSE IF starts_with(trimmed, <<43, QUOTE>>) \/ starts_with(trimmed, <<45, QUOTE>>)
       THEN LET value_line(v) ==
                    IF v.tag # "Ok" THEN v
                    ELSE parse_diff_lines(ls, idx + 1, path,
                             Append(changes,
                                    IF Head(trimmed) = 43
                                    THEN ValueAdded(path, v.val.name, v.val.value)
                                    ELSE ValueDeleted(path, v.val.name, v.val.value)),
                             key_props)
            IN value_line(parse_value(Tail(trimmed)))
       ELSE IF starts_with(trimmed, <<126, QUOTE>>)
       THEN LET modification(v) ==
                    IF v.tag # "Ok" THEN v
                    ELSE parse_diff_lines(ls, idx + 1, path,
                             Append(changes, ValueModified(path, v.val.name,
                                                           v.val.old_value, v.val.new_value)),
                             key_props)
            IN modification(parse_value_modification(Tail(trimmed)))
       ELSE parse_diff_lines(ls, idx + 1, path, changes, key_props)

\* TextDiffParser::parse
parse(diff_text) == parse_diff_lines(lines(diff_text), 0, <<>>, <<>>, <<>>)

---------------------------------------------------------------------------
(* Inputs *)

\* Bound on the length of a hand-written change list.
MaxChanges == 2

s_a == <<97>>
s_b == <<98>>
s_c == <<99>>
s_v == <<118>>
s_V == <<86>>
p_a_b == s_a \o <<BACKSLASH>> \o s_b
p_a_b_trailing == p_a_b \o <<BACKSLASH>>
p_a_b_doubled == s_a \o <<BACKSLASH, BACKSLASH>> \o s_b

Sides == {"left", "right"}
BuildPaths == {s_a, p_a_b, s_c}
SubkeyNames == {s_b}
ValueNames == {s_v}
BuildData == {DString(s_a), DBinary(<<97, 0, 0, 0>>, REG_SZ), DDword(1), DQword(1)}
BuildClassNames == {Some(s_c)}

\* The changes of the hand-written change lists.
v_dword == RegistryValue(s_v, DDword(1))
v_string == RegistryValue(s_v, DString(s_a))
PatchChanges ==
    {KeyAdded(p_a_b), KeyAdded(s_a),
     KeyModified(s_a, <<SymlinkChange(FALSE, TRUE)>>),
     ValueAdded(p_a_b, s_v, v_dword),
     ValueModified(p_a_b, s_v, v_dword, v_string),
     ValueDeleted(p_a_b, s_V, v_dword), ValueDeleted(p_a_b_trailing, s_v, v_dword),
     ValueDeleted(p_a_b_doubled, s_v, v_dword),
     KeyDeleted(s_a)}

RECURSIVE SeqsUpTo(_, _)
SeqsUpTo(S, n) ==
    IF n = 0 THEN {<<>>}
    ELSE SeqsUpTo(S, n - 1)
         \cup {Append(q, x) : q \in {r \in SeqsUpTo(S, n - 1) : Len(r) = n - 1}, x \in S}

PatchInputs == SeqsUpTo(PatchChanges, MaxChanges)

---------------------------------------------------------------------------
(* State *)

VARIABLES
    left,       \* the tree the patch is applied to (A)
    right,      \* a second tree (B)
    nops,       \* builder operations done so far
    pc,         \* "idle", "loop" (inside apply_patch) or "done" (it returned)
    input,      \* diff.changes of the running apply_patch
    options,    \* its PatchOptions
    ordered,    \* order_changes(input)
    idx,        \* position of the for loop in ordered
    applied,    \* PatchResult.applied
    failed,     \* PatchResult.failed
    before,     \* the target tree when the current call started
    text,       \* the registry text handed to the parser
    overflow_checks,  \* whether the build panics on integer overflow (debug) or wraps
    loaded,     \* outcome of load_from_text(text), None before the call
    written,    \* outcome of write_to_string on the loaded tree, None before the call
    reloaded,   \* outcome of load_from_text on the written text, None before the call
    call,       \* the last call on a key of the tree with its arguments and what it
                \* returned, None before the first one
    exported,   \* the text export gave for the change list input, None before the call
    parsed,     \* outcome of TextDiffParser::parse on that text, None before the call
    seconds,    \* the second count of a key header
    filetime,   \* outcome of timestamp_to_filetime(seconds), None before the call
    timestamp,  \* outcome of filetime_to_timestamp on that FILETIME, None before the call
    handle,     \* a KeyNode the caller kept of a key that delete_subkey removed, None
                \* while there is none
    reported    \* what get_full_path returned for the handle, None before the call

vars == <<left, right, nops, pc, input, options, ordered, idx, applied, failed, before,
          text, overflow_checks, loaded, written, reloaded, call, exported, parsed,
          seconds, filetime, timestamp, handle, reported>>
patch_vars == <<pc, input, options, ordered, idx, applied, failed, before>>
text_vars == <<text, overflow_checks, loaded, written, reloaded>>
diff_vars == <<exported, parsed>>
time_vars == <<seconds, filetime, timestamp>>
handle_vars == <<handle, reported>>

Init ==
    /\ left = create_root
    /\ right = create_root
    /\ nops = 0
    /\ pc = "idle"
    /\ input = <<>>
    /\ options = PatchOptionsDefault
    /\ ordered = <<>>
    /\ idx = 1
    /\ applied = <<>>
    /\ failed = <<>>
    /\ before = create_root
    /\ text = <<>>
    /\ overflow_checks = TRUE
    /\ loaded = None
    /\ written = None
    /\ reloaded = None
    /\ call = None
    /\ exported = None
    /\ parsed = None
    /\ seconds = <<0>>
    /\ filetime = None
    /\ timestamp = None
    /\ handle = None
    /\ reported = None

Tree(side) == IF side = "left" THEN left ELSE right

\* One builder call on the tree of a side (registry_dsl.rs).
Build(side, t) ==
    /\ pc = "idle"
    /\ nops < MaxOps
    /\ nops' = nops + 1
    /\ IF side = "left" THEN left' = t /\ right' = right
                        ELSE right' = t /\ left' = left
    /\ UNCHANGED patch_vars
    /\ UNCHANGED <<text_vars, call, diff_vars, time_vars, handle_vars>>

\* RegistryDslContext::key
CreateKeyRecursive(side, path) ==
    Build(side, create_key_recursive(Tree(side), <<>>, path).tree)

CreateSubkey(side, p, name) ==
    /\ p \in DOMAIN Tree(side)
    /\ Build(side, create_subkey(Tree(side), p, name).tree)

\* RegistryKeyDsl::value, dword, qword, binary
SetValue(side, p, name, data) ==
    /\ p \in DOMAIN Tree(side)
    /\ Build(side, set_value(Tree(side), p, name, RegistryValue(name, data)))

\* RegistryKeyDsl::delete_value
DeleteValue(side, p, name) ==
    /\ p \in DOMAIN Tree(side)
    /\ Build(side, delete_value(Tree(side), p, name).tree)

\* RegistryKeyDsl::delete_key
DeleteSubkey(side, p, name, recursive) ==
    /\ p \in DOMAIN Tree(side)
    /\ Build(side, delete_subkey(Tree(side), p, name, recursive).tree)

\* RegistryKeyDsl::class_name, is_symlink, is_volatile
SetClassName(side, p, name) ==
    /\ p \in DOMAIN Tree(side)
    /\ Build(side, [Tree(side) EXCEPT ![p].class_name = name])

SetSymlink(side, p, v) ==
    /\ p \in DOMAIN Tree(side)
    /\ Build(side, [Tree(side) EXCEPT ![p].is_symlink = v])

SetVolatile(side, p, v) ==
    /\ p \in DOMAIN Tree(side)
    /\ Build(side, [Tree(side) EXCEPT ![p].is_volatile = v])

\* apply_patch up to its for loop.
BeginPatch(diff, opts) ==
    /\ pc = "idle"
    /\ pc' = "loop"
    /\ input' = diff
    /\ options' = opts
    /\ ordered' = order_changes(diff)
    /\ idx' = 1
    /\ applied' = <<>>
    /\ failed' = <<>>
    /\ before' = left
    /\ UNCHANGED <<left, right, nops>>
    /\ UNCHANGED <<text_vars, call, diff_vars, time_vars, handle_vars>>

\* left.apply_patch(&left.compare_with(&right))
StartComparePatch == BeginPatch(compare_registries(left, right), PatchOptionsDefault)

\* apply_patch_with on a hand-written change list
StartPatch(diff, opts) == BeginPatch(diff, opts)

\* A loop that never breaks.
breaks_never(opts) == FALSE

\* if !options.ignore_failures { break; }
breaks_on_failure(opts) == ~opts.ignore_failures

\* Ok(false) => "Unable to apply change", Err(msg) => msg
failure_reason(res) == IF res = OkFalse THEN "Unable to apply change" ELSE "missing key"

\* One iteration of the for loop of apply_patch.
PatchStep ==
    /\ pc = "loop"
    /\ idx <= Len(ordered)
    /\ LET change == ordered[idx]
           r == apply_change(left, change, options)
       IN /\ left' = r.tree
          /\ IF r.res = OkTrue
             THEN /\ applied' = Append(applied, change)
                  /\ failed' = failed
                  /\ idx' = idx + 1
                  /\ pc' = "loop"
             ELSE /\ failed' = Append(failed, [change |-> change,
                                               reason |-> failure_reason(r.res)])
                  /\ applied' = applied
                  /\ IF breaks_on_failure(options)
                     THEN pc' = "done" /\ idx' = idx
                     ELSE pc' = "loop" /\ idx' = idx + 1
    /\ UNCHANGED <<right, nops, input, options, ordered, before>>
    /\ UNCHANGED <<text_vars, call, diff_vars, time_vars, handle_vars>>

\* The loop is over: apply_patch returns its PatchResult.
PatchReturn ==
    /\ pc = "loop"
    /\ idx > Len(ordered)
    /\ pc' = "done"
    /\ UNCHANGED <<left, right, nops, input, options, ordered, idx, applied, failed, before>>
    /\ UNCHANGED <<text_vars, call, diff_vars, time_vars, handle_vars>>

\* PatchResult::is_success
is_success == failed = <<>> \/ options.ignore_failures

\* The builder calls on the two trees.
BuildBoth ==
    /\ pc = "idle"
    /\ nops < MaxOps
    /\ \/ \E side \in Sides, path \in BuildPaths : CreateKeyRecursive(side, path)
       \/ \E side \in Sides : \E p \in DOMAIN Tree(side), name \in SubkeyNames :
              CreateSubkey(side, p, name)
       \/ \E side \in Sides : \E p \in DOMAIN Tree(side), name \in ValueNames, data \in BuildData :
              SetValue(side, p, name, data)
       \/ \E side \in Sides : \E p \in DOMAIN Tree(side), name \in ValueNames :
              DeleteValue(side, p, name)
       \/ \E side \in Sides : \E p \in DOMAIN Tree(side) :
              \E name \in subkey_names(Tree(side), p), recursive \in BOOLEAN :
                  DeleteSubkey(side, p, name, recursive)
       \/ \E side \in Sides : \E p \in DOMAIN Tree(side), name \in BuildClassNames :
              SetClassName(side, p, name)
       \/ \E side \in Sides : \E p \in DOMAIN Tree(side) : SetSymlink(side, p, TRUE)
       \/ \E side \in Sides : \E p \in DOMAIN Tree(side) : SetVolatile(side, p, TRUE)

\* Two trees built side by side, then left patched with compare(left, right).
Next ==
    \/ BuildBoth
    \/ StartComparePatch
    \/ PatchStep
    \/ PatchReturn

Spec == Init /\ [][Next]_vars

\* The builder calls on the target of a hand-written patch.
BuildTarget ==
    /\ pc = "idle"
    /\ nops < MaxOps
    /\ \/ \E path \in {s_a, p_a_b} : CreateKeyRecursive("left", path)
       \/ \E p \in DOMAIN left : SetValue("left", p, s_v, DDword(1))

StartPatchAny ==
    /\ pc = "idle"
    /\ \E diff \in PatchInputs, opts \in PatchOptionsAll : StartPatch(diff, opts)

\* One tree built, then patched with a hand-written change list under any options.
NextPatch ==
    \/ BuildTarget
    \/ StartPatchAny
    \/ PatchStep
    \/ PatchReturn

SpecPatch == Init /\ [][NextPatch]_vars

---------------------------------------------------------------------------
(* Parsing a text, writing the tree, parsing again: registry_file_io_test.rs *)

\* Bound on the number of lines after the header line.
MaxLines == 2

\* What a text starts with: the header, the header between spaces, a blank
\* line and then the header, another version, nothing.
TextHeads ==
    { <<87, 73, 78, 69, 32, 82, 69, 71, 73, 83, 84, 82, 89, 32, 86, 101, 114, 115, 105, 111, 110, 32, 50, 10>>,
      <<32, 32, 87, 73, 78, 69, 32, 82, 69, 71, 73, 83, 84, 82, 89, 32, 86, 101, 114, 115, 105, 111, 110, 32, 50, 32, 10>>,
      <<10, 87, 73, 78, 69, 32, 82, 69, 71, 73, 83, 84, 82, 89, 32, 86, 101, 114, 115, 105, 111, 110, 32, 50, 10>>,
      <<87, 73, 78, 69, 32, 82, 69, 71, 73, 83, 84, 82, 89, 32, 86, 101, 114, 115, 105, 111, 110, 32, 49, 10>>,
      <<>> }

\* The lines a text continues with.
TextLines ==
    { <<91, 97, 93, 32, 49, 48, 48, 10>>,
      <<91, 97, 92, 92, 98, 93, 32, 50, 48, 48, 10>>,
      <<91, 99, 93, 32, 120, 10>>,
      <<91, 99, 93, 10>>,
      <<91, 100, 93, 32, 57, 57, 57, 57, 57, 57, 57, 57, 57, 57, 57, 57, 57, 57, 57, 57, 57, 57, 57, 10>>,
      <<35, 116, 105, 109, 101, 61, 49, 102, 10>>,
      <<35, 99, 108, 97, 115, 115, 61, 34, 107, 34, 10>>,
      <<34, 118, 34, 61, 34, 120, 34, 10>> }

ParseTexts ==
    {head \o Flatten(body) : head \in TextHeads, body \in SeqsUpTo(TextLines, MaxLines)}

InitParse ==
    /\ left = create_root
    /\ right = create_root
    /\ nops = 0
    /\ pc = "idle"
    /\ input = <<>>
    /\ options = PatchOptionsDefault
    /\ ordered = <<>>
    /\ idx = 1
    /\ applied = <<>>
    /\ failed = <<>>
    /\ before = create_root
    /\ text \in ParseTexts
    /\ overflow_checks \in BOOLEAN
    /\ loaded = None
    /\ written = None
    /\ reloaded = None
    /\ call = None
    /\ exported = None
    /\ parsed = None
    /\ seconds = <<0>>
    /\ filetime = None
    /\ timestamp = None
    /\ handle = None
    /\ reported = None

\* parser.load_from_text(&text)
Load ==
    /\ loaded = None
    /\ loaded' = Some(load_from_text(text, overflow_checks))
    /\ UNCHANGED <<left, right, nops, patch_vars, text, overflow_checks, written, reloaded, call, diff_vars, time_vars, handle_vars>>

\* RegistryWriter { relative_base, architecture } of the load result,
\* write_to_string(&loaded.root_key)
Write ==
    /\ loaded # None
    /\ written = None
    /\ loaded[1].tag = "Ok"
    /\ written' = Some(write_to_string(loaded[1].val.relative_base,
                                       loaded[1].val.architecture,
                                       loaded[1].val.root_key, overflow_checks))
    /\ UNCHANGED <<left, right, nops, patch_vars, text, overflow_checks, loaded, reloaded, call, diff_vars, time_vars, handle_vars>>

\* parser.load_from_text(&written)
Reload ==
    /\ written # None
    /\ reloaded = None
    /\ written[1].tag = "Ok"
    /\ reloaded' = Some(load_from_text(written[1].val, overflow_checks))
    /\ UNCHANGED <<left, right, nops, patch_vars, text, overflow_checks, loaded, written, call, diff_vars, time_vars, handle_vars>>

NextParse ==
    \/ Load
    \/ Write
    \/ Reload

SpecParse == InitParse /\ [][NextParse]_vars

---------------------------------------------------------------------------
(* Calls on the keys of one tree: basic_test.rs *)

\* Bound on the number of calls.
MaxCalls == 3

\* Names in both letter cases, and the empty name.
CallNames == {s_a, <<65>>, <<>>}
CallPaths == {p_a_b, <<65, BACKSLASH, 66>>}
CallValueNames == {s_v, s_V}

\* One call on the tree: what it leaves and what it returned.
TreeCall(c, t) ==
    /\ pc = "idle"
    /\ nops < MaxCalls
    /\ nops' = nops + 1
    /\ before' = left
    /\ left' = t
    /\ call' = Some(c)
    /\ UNCHANGED <<right, pc, input, options, ordered, idx, applied, failed, text_vars, diff_vars, time_vars, handle_vars>>

\* RegistryKey::create_subkey(&node, name)
CallCreateSubkey ==
    \E node \in DOMAIN left, name \in CallNames :
        LET r == create_subkey(left, node, name)
        IN TreeCall([op |-> "create_subkey", node |-> node, name |-> name,
                     recursive |-> FALSE, result |-> r.node], r.tree)

\* RegistryKey::create_key_recursive(&root, path)
CallCreateKeyRecursive ==
    \E path \in CallPaths :
        LET r == create_key_recursive(left, <<>>, path)
        IN TreeCall([op |-> "create_key_recursive", node |-> <<>>, name |-> path,
                     recursive |-> FALSE, result |-> r.node], r.tree)

\* RegistryKey::delete_subkey(&node, name, recursive)
CallDeleteSubkey ==
    \E node \in DOMAIN left, recursive \in BOOLEAN :
        LET r == delete_subkey(left, node, s_a, recursive)
        IN TreeCall([op |-> "delete_subkey", node |-> node, name |-> s_a,
                     recursive |-> recursive, result |-> r.removed], r.tree)

\* node.borrow_mut().set_value(name, value)
CallSetValue ==
    \E node \in DOMAIN left, name \in CallValueNames :
        TreeCall([op |-> "set_value", node |-> node, name |-> name,
                  recursive |-> FALSE, result |-> TRUE],
                 set_value(left, node, name, RegistryValue(name, DDword(1))))

NextTree ==
    \/ CallCreateSubkey
    \/ CallCreateKeyRecursive
    \/ CallDeleteSubkey
    \/ CallSetValue

SpecTree == Init /\ [][NextTree]_vars

---------------------------------------------------------------------------
(* Exporting a change list and parsing the text: registry_text_diff_test.rs *)

\* Bound on the length of an exported change list.
MaxDiff == 2

s_m == <<109>>

\* Changes of every kind; payloads with a closing quote, with "->", with a
\* comma, and a class name with a backslash.
DiffChanges ==
    { KeyAdded(p_a_b),
      KeyDeleted(s_a),
      KeyModified(s_a, <<ClassNameChange(None, Some(s_c))>>),
      KeyModified(p_a_b, <<SymlinkChange(FALSE, TRUE), VolatileChange(TRUE, FALSE)>>),
      ValueAdded(s_a, s_v, RegistryValue(s_v, DString(s_b))),
      ValueDeleted(p_a_b, s_v, RegistryValue(s_v, DDword(1))),
      ValueModified(s_a, s_v, RegistryValue(s_v, DDword(1)), RegistryValue(s_v, DQword(2))),
      ValueAdded(s_a, s_m, RegistryValue(s_m, DMultiString(<<s_b, s_c>>))),
      ValueAdded(<<>>, s_v, RegistryValue(s_v, DBinary(<<1, 255>>, REG_BINARY))),
      ValueAdded(s_a, s_v, RegistryValue(s_v, DString(<<98, 34>>))),
      ValueModified(s_a, s_v, RegistryValue(s_v, DString(<<98, 45, 62, 99>>)),
                    RegistryValue(s_v, DString(s_c))),
      ValueAdded(s_a, s_m, RegistryValue(s_m, DMultiString(<<<<98, 44, 99>>>>))),
      KeyModified(s_a, <<ClassNameChange(None, Some(<<99, 92, 98>>))>>) }

DiffInputs == SeqsUpTo(DiffChanges, MaxDiff)

\* What chrono::Local::now() is formatted to.
GeneratedTimes == { <<50, 48, 50, 52, 45, 48, 49, 45, 48, 49, 32, 48, 48, 58, 48, 48, 58, 48, 48>> }

InitDiff ==
    /\ left = create_root
    /\ right = create_root
    /\ nops = 0
    /\ pc = "idle"
    /\ input \in DiffInputs
    /\ options = PatchOptionsDefault
    /\ ordered = <<>>
    /\ idx = 1
    /\ applied = <<>>
    /\ failed = <<>>
    /\ before = create_root
    /\ text = <<>>
    /\ overflow_checks = TRUE
    /\ loaded = None
    /\ written = None
    /\ reloaded = None
    /\ call = None
    /\ exported = None
    /\ parsed = None
    /\ seconds = <<0>>
    /\ filetime = None
    /\ timestamp = None
    /\ handle = None
    /\ reported = None

\* exporter.export(&diff, None, None)
Export ==
    /\ exported = None
    /\ \E generated \in GeneratedTimes : exported' = Some(export(input, generated))
    /\ parsed' = parsed
    /\ UNCHANGED <<left, right, nops, patch_vars, text_vars, call, time_vars, handle_vars>>

\* parser.parse(&text)
ParseDiff ==
    /\ exported # None
    /\ parsed = None
    /\ parsed' = Some(parse(exported[1]))
    /\ exported' = exported
    /\ UNCHANGED <<left, right, nops, patch_vars, text_vars, call, time_vars, handle_vars>>

NextDiff ==
    \/ Export
    \/ ParseDiff

SpecDiff == InitDiff /\ [][NextDiff]_vars

---------------------------------------------------------------------------
(* Properties *)

Range(seq) == {seq[i] : i \in 1..Len(seq)}

\* The path of a node position: its folded names joined by single backslashes.
RECURSIVE JoinPath(_)
JoinPath(p) ==
    IF p = <<>> THEN <<>>
    ELSE IF Len(p) = 1 THEN p[1]
    ELSE p[1] \o <<BACKSLASH>> \o JoinPath(Tail(p))

has_children_or_values(t, p) == DOMAIN t[p].values # {} \/ subkey_names(t, p) # {}

\* C1: applying compare(A, B) to A with the default options yields a tree T
\* with compare(T, B) empty.
C1_PatchReachesRight ==
    (pc = "done" /\ options = PatchOptionsDefault /\ input = compare_registries(before, right))
        => compare_registries(left, right) = <<>>

\* C6: applying compare(A, B) to A with the default options reports success
\* with an empty failure list.
C6_ComparePatchSucceeds ==
    (pc = "done" /\ options = PatchOptionsDefault /\ input = compare_registries(before, right))
        => (failed = <<>> /\ is_success)

\* C7: compare(K, K) is empty for every tree K, and applying the empty change
\* list leaves the tree as it was and reports success with nothing applied and
\* nothing failed.
C7_SelfCompareEmpty ==
    /\ compare_registries(left, left) = <<>>
    /\ compare_registries(right, right) = <<>>
    /\ (pc = "done" /\ input = <<>>)
          => (left = before /\ applied = <<>> /\ failed = <<>> /\ is_success)

C7_Witness ==
    /\ pc = "done"
    /\ input = <<>>
    /\ \E p \in DOMAIN left : DOMAIN left[p].values # {}

\* The two trees have the same key positions, the same class_name, is_symlink
\* and is_volatile on every key, and on every key the same folded value names
\* with equal type code and canonical bytes.
SameTrees(l, r) ==
    /\ DOMAIN l = DOMAIN r
    /\ \A p \in DOMAIN l :
          /\ l[p].class_name = r[p].class_name
          /\ l[p].is_symlink = r[p].is_symlink
          /\ l[p].is_volatile = r[p].is_volatile
          /\ DOMAIN l[p].values = DOMAIN r[p].values
          /\ \A k \in DOMAIN l[p].values :
                /\ reg_type(l[p].values[k]) = reg_type(r[p].values[k])
                /\ raw_bytes(l[p].values[k]) = raw_bytes(r[p].values[k])

CountOf(seq, Test(_)) == Cardinality({i \in 1..Len(seq) : Test(seq[i])})

\* What compare(l, r) must hold for the keys of r that l lacks, and for the
\* values of r that l lacks: one KeyAdded per key, one ValueAdded per value.
CoversAdded(d, l, r, key_kind, value_kind) ==
    /\ \A p \in DOMAIN r \ DOMAIN l :
          CountOf(d, LAMBDA c : c.kind = key_kind /\ c.path = JoinPath(p)) = 1
    /\ CountOf(d, LAMBDA c : c.kind = key_kind) = Cardinality(DOMAIN r \ DOMAIN l)
    /\ \A p \in DOMAIN r : \A k \in DOMAIN r[p].values :
          CountOf(d, LAMBDA c : /\ c.kind = value_kind
                                /\ c.path = JoinPath(p)
                                /\ c.value = r[p].values[k])
            = IF p \in DOMAIN l /\ k \in DOMAIN l[p].values THEN 0 ELSE 1
    /\ CountOf(d, LAMBDA c : c.kind = value_kind)
         = Cardinality({pk \in UNION {{<<p, k>> : k \in DOMAIN r[p].values} : p \in DOMAIN r} :
                          ~(pk[1] \in DOMAIN l /\ pk[2] \in DOMAIN l[pk[1]].values)})

\* C8: compare(L, R) is empty exactly when the trees do not differ, and a
\* subtree present on one side only yields one KeyAdded (KeyDeleted) per key
\* and one ValueAdded (ValueDeleted) per value.
C8_CompareCoversDifferences ==
    LET d == compare_registries(left, right)
    IN /\ (d = <<>>) <=> SameTrees(left, right)
       /\ CoversAdded(d, left, right, "KeyAdded", "ValueAdded")
       /\ CoversAdded(d, right, left, "KeyDeleted", "ValueDeleted")

C8_Witness ==
    /\ pc = "idle"
    /\ \E p \in DOMAIN right \ DOMAIN left :
          /\ Len(p) = 2
          /\ DOMAIN right[p].values # {}
    /\ \E p \in DOMAIN left \ DOMAIN right : TRUE

\* C9: for a value name present on both sides of a key, compare emits
\* ValueModified exactly when the type codes or the canonical bytes differ; a
\* Binary of type code 1 holding the UTF-16LE bytes of a String equals that
\* String, and a Dword never equals a Qword.
C9_ValueModifiedIffDifferent ==
    LET d == compare_registries(left, right)
    IN \A p \in DOMAIN left \cap DOMAIN right :
         \A k \in DOMAIN left[p].values \cap DOMAIN right[p].values :
            LET lv == left[p].values[k]
                rv == right[p].values[k]
                modified == \E i \in 1..Len(d) :
                               /\ d[i].kind = "ValueModified"
                               /\ d[i].path = JoinPath(p)
                               /\ d[i].old_value = lv
                               /\ d[i].new_value = rv
            IN /\ modified <=> (reg_type(lv) # reg_type(rv) \/ raw_bytes(lv) # raw_bytes(rv))
               /\ (lv.data = DString(s_a) /\ rv.data = DBinary(<<97, 0, 0, 0>>, 1)) => ~modified
               /\ (lv.data.tag = "Dword" /\ rv.data.tag = "Qword") => modified
               /\ (lv.data.tag = "Qword" /\ rv.data.tag = "Dword") => modified

C9_Witness ==
    /\ s_V \in DOMAIN left[<<>>].values
    /\ s_V \in DOMAIN right[<<>>].values
    /\ left[<<>>].values[s_V].data = DString(s_a)
    /\ right[<<>>].values[s_V].data = DBinary(<<97, 0, 0, 0>>, 1)
    /\ compare_registries(left, right) = <<>>

\* From tree t to tree u, every key whose values or subkeys changed, and every
\* key that is new, is dirty in u together with all its ancestors.
DirtyAfter(t, u) ==
    \A p \in DOMAIN u :
        (\/ p \notin DOMAIN t
         \/ t[p].values # u[p].values
         \/ subkey_names(t, p) # subkey_names(u, p))
        => \A q \in DOMAIN u : IsPrefix(q, p) => u[q].is_dirty

\* C10: after any mutating operation on a key, that key and every ancestor up
\* to the root have is_dirty = true.
C10_DirtyPropagation == [][DirtyAfter(left, left') /\ DirtyAfter(right, right')]_vars

C10_Witness ==
    /\ \E p \in DOMAIN left : Len(p) = 2 /\ DOMAIN left[p].values # {}
    /\ \A p \in DOMAIN left : left[p].is_dirty
    /\ right[<<>>].is_dirty
    /\ DOMAIN right[<<>>].values # {}

\* The for loop of apply_patch is about to attempt a change of this kind.
InStep(kind) == pc = "loop" /\ idx <= Len(ordered) /\ ordered[idx].kind = kind

FailedChanges == {f.change : f \in Range(failed)}

\* C2: when the input holds KeyAdded(P) and ValueAdded(P, n, v), KeyAdded(P)
\* has been attempted before ValueAdded(P, n, v) is, and the value is only set
\* on a key that exists already.
C2_KeyAddedBeforeValueAdded ==
    [][(InStep("ValueAdded") /\ KeyAdded(ordered[idx].path) \in Range(input))
          => /\ KeyAdded(ordered[idx].path) \in Range(applied) \cup FailedChanges
             /\ applied' # applied => find_key(left, <<>>, ordered[idx].path) # None]_vars

C2_Witness ==
    /\ pc = "done"
    /\ Len(input) = 2
    /\ input[1].kind = "ValueAdded"
    /\ input[2] = KeyAdded(input[1].path)
    /\ find_key(before, <<>>, input[1].path) = None
    /\ ~options.create_missing_keys
    /\ applied = <<input[2], input[1]>>

\* The changes of s, with their multiplicities, are those of t.
SameChanges(s, t) ==
    /\ Len(s) = Len(t)
    /\ \A c \in Range(s) \cup Range(t) :
          CountOf(s, LAMBDA x : x = c) = CountOf(t, LAMBDA x : x = c)

failed_changes_seq ==
    LET acc[i \in 0..Len(failed)] ==
            IF i = 0 THEN <<>> ELSE Append(acc[i - 1], failed[i].change)
    IN acc[Len(failed)]

\* C3: with ignore_failures = false nothing is attempted after the first
\* failure (at most one failure, the changes before it applied, nothing after
\* it applied or recorded); with ignore_failures = true every input change ends
\* in exactly one of the applied list and the failure list.
C3_StopAtFirstFailure ==
    /\ [](/\ (~options.ignore_failures)
               => /\ Len(failed) <= 1
                  /\ failed # <<>>
                       => /\ pc = "done"
                          /\ failed[1].change = ordered[idx]
                          /\ applied = SubSeq(ordered, 1, idx - 1)
          /\ (options.ignore_failures /\ pc = "done")
               => SameChanges(applied \o failed_changes_seq, input))
    /\ [][(~options.ignore_failures /\ failed # <<>>)
             => (left' = left /\ applied' = applied /\ failed' = failed)]_vars

C3_Witness ==
    /\ pc = "done"
    /\ ~options.ignore_failures
    /\ failed # <<>>
    /\ idx < Len(ordered)

\* C4: with create_missing_keys = false, KeyAdded(path) whose parent path is
\* non-empty and does not resolve fails and creates no key; otherwise the key
\* is created.
C4_KeyAddedNeedsParent ==
    [][(InStep("KeyAdded") /\ ~options.create_missing_keys)
          => LET change == ordered[idx]
                 parent_path == rsplit_parent(change.path)
             IN IF parent_path # <<>> /\ find_key(left, <<>>, parent_path) = None
                THEN /\ Len(failed') = Len(failed) + 1
                     /\ failed'[Len(failed')].change = change
                     /\ applied' = applied
                     /\ left' = left
                ELSE /\ applied' = Append(applied, change)
                     /\ failed' = failed
                     /\ find_key(left', <<>>, change.path) # None]_vars

C4_Witness ==
    /\ pc = "done"
    /\ ~options.create_missing_keys
    /\ KeyAdded(p_a_b) \in FailedChanges
    /\ applied = <<>>
    /\ DOMAIN left = {<<>>}

\* The last segment of a key path is empty: the path ends with a backslash.
\* Then rsplit_once names no key and delete_subkey refuses.
EndsWithBackslash(path) == path # <<>> /\ path[Len(path)] = BACKSLASH

HasDoubledBackslash(path) ==
    \E i \in 1..(Len(path) - 1) : path[i] = BACKSLASH /\ path[i + 1] = BACKSLASH

\* What a ValueDeleted step that removes a value does to the keys: only keys
\* of the chain from the value's key up are removed, each without values and
\* with all its subkeys removed; the root stays; with exhaustive, no key of
\* the chain is left without a value and without a subkey.
CleansChain(t, u, node, exhaustive) ==
    /\ <<>> \in DOMAIN u
    /\ DOMAIN u \subseteq DOMAIN t
    /\ \A q \in DOMAIN t \ DOMAIN u :
          /\ IsPrefix(q, node)
          /\ DOMAIN t[q].values \subseteq (IF q = node THEN DOMAIN t[q].values ELSE {})
          /\ \A r \in DOMAIN t : IsPrefix(q, r) => r \notin DOMAIN u
    /\ \A q \in DOMAIN t \ DOMAIN u : q # node => DOMAIN t[q].values = {}
    /\ node \notin DOMAIN u => Cardinality(DOMAIN t[node].values) = 1
    /\ exhaustive =>
          \A q \in DOMAIN u \ {<<>>} : IsPrefix(q, node) => has_children_or_values(u, q)

ValueDeletedRemoves ==
    InStep("ValueDeleted") /\ applied' = Append(applied, ordered[idx])

\* C5 as stated: the walk removes every empty key of the chain, whatever the
\* key path.
C5_CleanupRemovesEveryEmptyKey ==
    [][ValueDeletedRemoves
          => LET node == find_key(left, <<>>, ordered[idx].path)[1]
             IN IF options.delete_empty_keys
                THEN CleansChain(left, left', node, TRUE)
                ELSE DOMAIN left' = DOMAIN left]_vars

\* C5, amended: the walk removes every empty key of the chain and stops at the
\* first key that still has a value or a subkey, or at a delete_subkey
\* refusal, which happens when the key path ends with a backslash or holds a
\* doubled one; it never removes the root nor a key that holds a value or a
\* subkey; with delete_empty_keys = false no key is removed.
C5_CleanupStopsAtRefusal ==
    [][ValueDeletedRemoves
          => LET path == ordered[idx].path
                 node == find_key(left, <<>>, path)[1]
             IN IF options.delete_empty_keys
                THEN CleansChain(left, left', node,
                                 ~EndsWithBackslash(path) /\ ~HasDoubledBackslash(path))
                ELSE DOMAIN left' = DOMAIN left]_vars

C5_Witness ==
    /\ options.delete_empty_keys
    /\ \E c \in Range(applied) : c.kind = "ValueDeleted" /\ c.path = p_a_b
    /\ <<normalize(s_a), normalize(s_b)>> \in DOMAIN before
    /\ DOMAIN before[<<normalize(s_a)>>].values # {}
    /\ DOMAIN left = {<<>>, <<normalize(s_a)>>}

---------------------------------------------------------------------------
(* The parser and the writer *)

LoadedOk == loaded # None /\ loaded[1].tag = "Ok"
LoadedTree == loaded[1].val.root_key

\* C11: a tree returned by the parser has is_dirty = false on every key: the
\* root, the intermediate keys and the keys with a header.
C11_ParsedTreeNotDirty ==
    LoadedOk => \A p \in DOMAIN LoadedTree : ~LoadedTree[p].is_dirty

InvalidHeader == Err([kind |-> "InvalidHeader"])

\* The first line of a text that is not empty, if there is one.
RECURSIVE first_non_empty(_)
first_non_empty(ls) ==
    IF ls = <<>> THEN None
    ELSE IF Head(ls) # <<>> THEN Some(Head(ls))
    ELSE first_non_empty(Tail(ls))

\* C19: the parser accepts a text iff its first non-empty line is exactly the
\* header: blank lines before the header do not make it fail, and any other
\* first non-empty line, or an empty text, gives the invalid-header error.
C19_FirstNonEmptyLineIsHeader ==
    loaded # None =>
        (loaded[1] # InvalidHeader <=> first_non_empty(lines(text)) = Some(HEADER))

\* The text after the ']' of a key header line.
header_field(line) == trim(skip(line, find(line, <<93>>)[1] + 1))

is_numeric(s) == s # <<>> /\ \A i \in 1..Len(s) : s[i] \in 48..57

RECURSIVE decimal_digits(_)
decimal_digits(s) == IF s = <<>> THEN <<>> ELSE <<Head(s) - 48>> \o decimal_digits(Tail(s))

\* sec * 10_000_000 + 116_444_736_000_000_000 for a numeric field, else zero
expected_time(line) ==
    IF is_numeric(header_field(line))
    THEN big_add(big_mul(strip_zeros(decimal_digits(header_field(line))), from_nat(10000000)),
                 <<1, 1, 6, 4, 4, 4, 7, 3, 6, 0, 0, 0, 0, 0, 0, 0, 0, 0>>)
    ELSE <<0>>

is_key_header(line) == starts_with(line, <<91>>) /\ find(line, <<93>>) # None

\* The key a header line names.
header_key(t, line) == find_key(t, <<>>, unescape_key_path(parse_key_header(line).val.path))

\* Line i is the last thing said about its key's time: no #time= line follows
\* it before the next header, and no later header names the same key.
time_from_header(t, ls, i) ==
    /\ is_key_header(ls[i])
    /\ \A j \in (i + 1)..Len(ls) :
          /\ starts_with(ls[j], TIME_PREFIX) =>
                \E k \in (i + 1)..(j - 1) : is_key_header(ls[k])
          /\ is_key_header(ls[j]) => header_key(t, ls[j]) # header_key(t, ls[i])

\* C20: a key whose header carries no seconds field, or a non-numeric one, and
\* that no #time= line follows has modification_time zero after parsing; with a
\* numeric field it is sec * 10_000_000 + 116_444_736_000_000_000.
C20_HeaderSecondsToFiletime ==
    LoadedOk =>
        \A i \in 1..Len(lines(text)) :
            time_from_header(LoadedTree, lines(text), i) =>
                LoadedTree[header_key(LoadedTree, lines(text)[i])[1]].modification_time
                    = expected_time(lines(text)[i])

\* The same key tree, the same value map and the same metadata on every key.
SameStructure(t, u) ==
    /\ DOMAIN t = DOMAIN u
    /\ \A p \in DOMAIN t :
          /\ t[p].name = u[p].name
          /\ t[p].values = u[p].values
          /\ t[p].class_name = u[p].class_name
          /\ t[p].is_symlink = u[p].is_symlink
          /\ t[p].modification_time = u[p].modification_time

\* C17: for a text that parses, writing the tree and parsing what was written
\* succeeds and gives the same key tree, value maps and metadata (class name,
\* symlink flag, modification time) on every key, keys that have only subkeys
\* included.
C17_ParseWriteParse ==
    /\ written # None => written[1].tag = "Ok"
    /\ reloaded # None =>
          /\ reloaded[1].tag = "Ok"
          /\ SameStructure(reloaded[1].val.root_key, LoadedTree)

---------------------------------------------------------------------------
(* The tree *)

ascii_uppercase(s) == [i \in 1..Len(s) |-> to_ascii_uppercase(s[i])]

\* The children of node p.
children(t, p) == {q \in DOMAIN t : Len(q) = Len(p) + 1 /\ IsPrefix(p, q)}

\* Looking an entry up by its name, by the name in upper case and by the name
\* in lower case gives that entry.
LookupsFold(t) ==
    \A p \in DOMAIN t :
        /\ \A k \in DOMAIN t[p].values :
              LET n == t[p].values[k].name
              IN /\ get_value(t, p, n) = Some(t[p].values[k])
                 /\ get_value(t, p, ascii_uppercase(n)) = Some(t[p].values[k])
                 /\ get_value(t, p, to_ascii_lowercase(n)) = Some(t[p].values[k])
        /\ \A c \in children(t, p) :
              LET n == t[c].name
              IN /\ get_subkey(t, p, n) = Some(c)
                 /\ get_subkey(t, p, ascii_uppercase(n)) = Some(c)
                 /\ get_subkey(t, p, to_ascii_lowercase(n)) = Some(c)
                 /\ n # <<>> =>
                       /\ find_key(t, p, n) = Some(c)
                       /\ find_key(t, p, ascii_uppercase(n)) = Some(c)
                       /\ find_key(t, p, to_ascii_lowercase(n)) = Some(c)

\* No key holds two subkeys or two values whose names differ in letter case only.
NoSecondEntry(t) ==
    \A p \in DOMAIN t :
        /\ \A c, d \in children(t, p) :
              ascii_uppercase(t[c].name) = ascii_uppercase(t[d].name) => c = d
        /\ \A k, l \in DOMAIN t[p].values :
              ascii_uppercase(t[p].values[k].name) = ascii_uppercase(t[p].values[l].name)
                  => k = l

\* C12: subkey and value lookups are ASCII case-insensitive: get_value,
\* get_subkey and find_key called with a stored name, its upper case or its
\* lower case return the same entry, and storing under a name that differs in
\* case only never creates a second entry.
C12_CaseInsensitiveLookups == LookupsFold(left) /\ NoSecondEntry(left)

\* A key created as "a" was then asked for as "A": still one child, and a value
\* set as "v" and as "V" is one value.
C12_Witness ==
    /\ call # None
    /\ call[1].op = "create_subkey"
    /\ call[1].name = <<65>>
    /\ call[1].node = <<>>
    /\ <<<<65>>>> \in DOMAIN before
    /\ before[<<<<65>>>>].name = s_a
    /\ Cardinality(children(left, <<>>)) = 1
    /\ \E p \in DOMAIN left : DOMAIN left[p].values # {}

\* C13: in every tree reached by create_root, create_subkey,
\* create_key_recursive and delete_subkey the root has an empty name and no
\* other key has an empty name, create_subkey with an empty segment included.
C13_OnlyRootHasEmptyName ==
    /\ left[<<>>].name = <<>>
    /\ \A p \in DOMAIN left : p # <<>> => left[p].name # <<>>

\* C14: every key's parent back-reference, if present, resolves to a key whose
\* subkey map holds that key under the upper case of its name; the root has no
\* parent.
C14_ParentHoldsKey ==
    /\ left[<<>>].parent = None
    /\ \A p \in DOMAIN left :
          /\ p # <<>> => left[p].parent # None
          /\ left[p].parent # None =>
                /\ left[p].parent[1] \in DOMAIN left
                /\ get_subkey(left, left[p].parent[1], ascii_uppercase(left[p].name)) = Some(p)

\* A key two levels down whose parent was created by another call, after a
\* delete_subkey took a sibling subtree away.
C14_Witness ==
    /\ \E p \in DOMAIN left : Len(p) = 2 /\ left[p].parent = Some(<<p[1]>>)
    /\ call # None
    /\ call[1].op = "delete_subkey"
    /\ call[1].result

\* Tree u is tree t with the keys of p's chain up to the root marked dirty and
\* nothing else changed on the keys both trees hold.
ChainDirtied(t, u, p) ==
    \A q \in DOMAIN t \cap DOMAIN u :
        u[q] = IF IsPrefix(q, p) THEN [t[q] EXCEPT !.is_dirty = TRUE] ELSE t[q]

\* C15: create_subkey returns the existing child and changes nothing in the
\* tree when a child exists under the folded name; otherwise it inserts one
\* new child with is_dirty = true and a parent back-reference to the parent,
\* and marks the parent and all its ancestors dirty.
C15_CreateSubkeyIdempotent ==
    (call # None /\ call[1].op = "create_subkey") =>
        LET c == Append(call[1].node, ascii_uppercase(call[1].name))
        IN /\ call[1].result = c
           /\ IF c \in DOMAIN before
              THEN left = before
              ELSE /\ DOMAIN left = DOMAIN before \cup {c}
                   /\ left[c].name = call[1].name
                   /\ left[c].is_dirty
                   /\ left[c].parent = Some(call[1].node)
                   /\ left[c].values = <<>>
                   /\ ChainDirtied(before, left, call[1].node)

\* create_subkey found the child under a name in the other letter case, in a
\* tree whose root was not dirty.
C15_Witness ==
    /\ call # None
    /\ call[1].op = "create_subkey"
    /\ Append(call[1].node, ascii_uppercase(call[1].name)) \in DOMAIN before
    /\ before[Append(call[1].node, ascii_uppercase(call[1].name))].name # call[1].name
    /\ left = before

\* C16: delete_subkey with recursive = false on a target that has a subkey
\* returns false and leaves the tree and the dirty flags unchanged; in every
\* other case where the named subkey exists it is removed with its whole
\* subtree, true is returned and the parent chain is dirtied; when the named
\* subkey does not exist it returns false and changes nothing.
C16_DeleteSubkey ==
    (call # None /\ call[1].op = "delete_subkey") =>
        LET c == Append(call[1].node, ascii_uppercase(call[1].name))
        IN IF c \notin DOMAIN before
           THEN ~call[1].result /\ left = before
           ELSE IF ~call[1].recursive /\ children(before, c) # {}
           THEN ~call[1].result /\ left = before
           ELSE /\ call[1].result
                /\ DOMAIN left = {q \in DOMAIN before : ~IsPrefix(c, q)}
                /\ ChainDirtied(before, left, call[1].node)

\* delete_subkey without recursive was refused on a key that has a subkey.
C16_Witness ==
    /\ call # None
    /\ call[1].op = "delete_subkey"
    /\ ~call[1].recursive
    /\ ~call[1].result
    /\ Append(call[1].node, ascii_uppercase(call[1].name)) \in DOMAIN before
    /\ children(before, Append(call[1].node, ascii_uppercase(call[1].name))) # {}

---------------------------------------------------------------------------
(* The textual diff *)

\* A change as the diff text carries it: kind, path, value name and payloads.
carried(c) ==
    CASE c.kind \in {"ValueAdded", "ValueDeleted"} ->
            [kind |-> c.kind, path |-> c.path, name |-> c.name, data |-> c.value.data]
      [] c.kind = "ValueModified" ->
            [kind |-> c.kind, path |-> c.path, name |-> c.name,
             old |-> c.old_value.data, new |-> c.new_value.data]
      [] OTHER -> c

\* C18: parsing the exported text of a change list gives the same changes as
\* a multiset: same kinds, paths, value names, payloads and key-property
\* changes, for payloads that end in a quote or hold "->" or a comma and for
\* class names that hold a backslash as well.
C18_DiffRoundTrip ==
    parsed # None =>
        /\ parsed[1].tag = "Ok"
        /\ SameChanges([i \in 1..Len(parsed[1].val) |-> carried(parsed[1].val[i])],
                       [i \in 1..Len(input) |-> carried(input[i])])

---------------------------------------------------------------------------
(* Writing a tree made with the builder: registry_dsl.rs *)

\* SystemTime::now() in seconds since 1970, as update_time may read it.
ClockSeconds == {<<1, 7, 0, 0, 0, 0, 0, 0, 0, 0>>, <<1, 7, 0, 0, 0, 0, 0, 0, 0, 1>>}

\* set_current_time_recursive / set_time: the key and its whole subtree
set_time(t, p, time) ==
    [q \in DOMAIN t |->
        IF IsPrefix(p, q) THEN [t[q] EXCEPT !.modification_time = time] ELSE t[q]]

InitWrite ==
    /\ left = create_root
    /\ right = create_root
    /\ nops = 0
    /\ pc = "idle"
    /\ input = <<>>
    /\ options = PatchOptionsDefault
    /\ ordered = <<>>
    /\ idx = 1
    /\ applied = <<>>
    /\ failed = <<>>
    /\ before = create_root
    /\ text = <<>>
    /\ overflow_checks \in BOOLEAN
    /\ loaded = None
    /\ written = None
    /\ reloaded = None
    /\ call = None
    /\ exported = None
    /\ parsed = None
    /\ seconds = <<0>>
    /\ filetime = None
    /\ timestamp = None
    /\ handle = None
    /\ reported = None

\* RegistryKeyDsl::update_time
UpdateTime(p, now) ==
    /\ p \in DOMAIN left
    /\ pc = "idle"
    /\ nops < MaxOps
    /\ nops' = nops + 1
    /\ left' = set_time(left, p, timestamp_to_filetime(now, overflow_checks).value)
    /\ UNCHANGED <<right, patch_vars, text_vars, call, diff_vars, time_vars, handle_vars>>

\* The builder calls on the tree, until it is written.
BuildWritten ==
    /\ pc = "idle"
    /\ nops < MaxOps
    /\ written = None
    /\ \/ \E path \in {s_a, p_a_b} : CreateKeyRecursive("left", path)
       \/ \E p \in DOMAIN left : SetValue("left", p, s_v, DDword(1))
       \/ \E p \in DOMAIN left, name \in BuildClassNames : SetClassName("left", p, name)
       \/ \E p \in DOMAIN left : SetSymlink("left", p, TRUE)
       \/ \E p \in DOMAIN left : SetVolatile("left", p, TRUE)
       \/ \E p \in DOMAIN left, now \in ClockSeconds : UpdateTime(p, now)

\* RegistryResult::write_to_string of the tree as built
WriteToString ==
    /\ pc = "idle"
    /\ written = None
    /\ written' = Some(write_to_string(<<>>, "Unknown", left, overflow_checks))
    /\ UNCHANGED <<left, right, nops, patch_vars, text, overflow_checks, loaded, reloaded,
                   call, diff_vars, time_vars, handle_vars>>

NextWrite ==
    \/ BuildWritten
    \/ WriteToString

\* One tree built, then written, in both builds.
SpecWrite == InitWrite /\ [][NextWrite]_vars

---------------------------------------------------------------------------
(* The seconds of a key header, to a FILETIME and back: registry_utils.rs *)

\* Bound on the small second counts.
MaxSeconds == 49

\* Second counts of key headers: small ones, and the ones around the two
\* limits of the 64-bit range, (2^64 - 1 - TICKS_1601_TO_1970) / TICKS_PER_SEC
\* = 1833029933770 and (2^64 - 1) / TICKS_PER_SEC = 1844674407370.
HeaderSeconds ==
    {from_nat(n) : n \in 0..MaxSeconds}
    \cup {<<1, 8, 3, 3, 0, 2, 9, 9, 3, 3, 7, 7, 0>>, <<1, 8, 3, 3, 0, 2, 9, 9, 3, 3, 7, 7, 1>>,
          <<1, 8, 4, 4, 6, 7, 4, 4, 0, 7, 3, 7, 0>>, <<1, 8, 4, 4, 6, 7, 4, 4, 0, 7, 3, 7, 1>>,
          U64_MAX}

\* The header lines "[a] <seconds>".
TimeHeaders == {<<91, 97, 93, 32>> \o to_string(s) : s \in HeaderSeconds}

InitTime ==
    /\ left = create_root
    /\ right = create_root
    /\ nops = 0
    /\ pc = "idle"
    /\ input = <<>>
    /\ options = PatchOptionsDefault
    /\ ordered = <<>>
    /\ idx = 1
    /\ applied = <<>>
    /\ failed = <<>>
    /\ before = create_root
    /\ text \in TimeHeaders
    /\ overflow_checks \in BOOLEAN
    /\ loaded = None
    /\ written = None
    /\ reloaded = None
    /\ call = None
    /\ exported = None
    /\ parsed = None
    /\ seconds = parse_key_header(text).val.timestamp
    /\ filetime = None
    /\ timestamp = None
    /\ handle = None
    /\ reported = None

\* timestamp_to_filetime(timestamp) of load_from_text
ToFiletime ==
    /\ filetime = None
    /\ filetime' = Some(timestamp_to_filetime(seconds, overflow_checks))
    /\ UNCHANGED <<left, right, nops, patch_vars, text_vars, call, diff_vars, seconds,
                   timestamp, handle_vars>>

\* filetime_to_timestamp(guard.modification_time) of write_subkeys
ToTimestamp ==
    /\ filetime # None
    /\ ~filetime[1].panic
    /\ timestamp = None
    /\ timestamp' = Some(filetime_to_timestamp(filetime[1].value, overflow_checks))
    /\ UNCHANGED <<left, right, nops, patch_vars, text_vars, call, diff_vars, seconds,
                   filetime, handle_vars>>

NextTime ==
    \/ ToFiletime
    \/ ToTimestamp

\* The seconds of a header converted and converted back, in both builds.
SpecTime == InitTime /\ [][NextTime]_vars

---------------------------------------------------------------------------
(* The order in which apply_patch attempts a change list *)

\* Bound on the length of the change lists that are ordered.
MaxOrder == 3

\* Changes of every kind; key additions and deletions of two depths, and two
\* of the same depth.
OrderChanges ==
    {KeyAdded(p_a_b), KeyAdded(s_a), KeyAdded(s_c),
     KeyDeleted(s_a), KeyDeleted(p_a_b), KeyDeleted(s_c),
     KeyModified(s_a, <<SymlinkChange(FALSE, TRUE)>>),
     ValueAdded(<<>>, s_v, v_dword),
     ValueModified(<<>>, s_v, v_dword, v_string),
     ValueDeleted(<<>>, s_v, v_dword)}

OrderInputs == SeqsUpTo(OrderChanges, MaxOrder)

\* apply_patch_with on the empty tree, stopping at the first failure or not
StartOrder ==
    /\ pc = "idle"
    /\ \E diff \in OrderInputs, ignore \in BOOLEAN :
           StartPatch(diff, [PatchOptionsDefault EXCEPT !.ignore_failures = ignore])

NextOrder ==
    \/ StartOrder
    \/ PatchStep
    \/ PatchReturn

\* Change lists in any input order applied to the empty tree.
SpecOrder == Init /\ [][NextOrder]_vars

---------------------------------------------------------------------------
(* The blocks of a written text *)

\* The number of lines of the text that open the block of key k of tree t.
block_count(ls, t, k) ==
    Cardinality({i \in 1..Len(ls) : starts_with(ls[i], <<91>> \o dump_path(t, k) \o <<93, 32>>)})

\* The key or one of its ancestors is volatile.
in_volatile_subtree(t, k) == \E q \in DOMAIN t : IsPrefix(q, k) /\ t[q].is_volatile

\* The key has a value, has no subkeys, or has a class name or the symlink flag.
block_wanted(t, k) ==
    \/ DOMAIN t[k].values # {}
    \/ ~\E q \in DOMAIN t : Len(q) = Len(k) + 1 /\ IsPrefix(k, q)
    \/ t[k].class_name # None
    \/ t[k].is_symlink

WrittenOk == written # None /\ written[1].tag = "Ok"

\* C21: in the text of a write that completed, a volatile key and every key
\* below it have no block whatever they carry, every other key that has a
\* value, has no subkeys or has a class name or the symlink flag has exactly
\* one block, and the text holds no further block.
C21_VolatileSubtreesSkipped ==
    WrittenOk =>
        LET ls == lines(written[1].val)
            expected(k) ==
                IF ~in_volatile_subtree(left, k) /\ block_wanted(left, k) THEN 1 ELSE 0
        IN /\ \A k \in DOMAIN left : block_count(ls, left, k) = expected(k)
           /\ Cardinality({i \in 1..Len(ls) : starts_with(ls[i], <<91>>)})
                  = Cardinality({k \in DOMAIN left : expected(k) = 1})

\* A written tree with a key below a volatile key that would have had a
\* block, and another key that got its block.
C21_Witness ==
    /\ WrittenOk
    /\ \E k \in DOMAIN left :
           /\ ~left[k].is_volatile
           /\ in_volatile_subtree(left, k)
           /\ block_wanted(left, k)
    /\ \E k \in DOMAIN left :
           /\ ~in_volatile_subtree(left, k)
           /\ block_count(lines(written[1].val), left, k) = 1

\* C30: every call of write_to_string completes.
C30_WriteCompletes == written # None => written[1].tag = "Ok"

\* C22: the FILETIME of the seconds s of a key header is s * 10_000_000 +
\* 116_444_736_000_000_000, a value of the 64-bit range, and converting it
\* back gives s.
C22_FiletimeInverse ==
    /\ filetime # None =>
           /\ ~filetime[1].panic
           /\ filetime[1].value = big_add(big_mul(seconds, <<1, 0, 0, 0, 0, 0, 0, 0>>),
                                          <<1, 1, 6, 4, 4, 4, 7, 3, 6, 0, 0, 0, 0, 0, 0, 0, 0, 0>>)
           /\ ~big_lt(U64_MAX, filetime[1].value)
    /\ timestamp # None => ~timestamp[1].panic /\ timestamp[1].value = seconds

---------------------------------------------------------------------------
(* The six phases *)

\* The phase of a change: 1 KeyAdded .. 6 KeyDeleted.
phase(c) ==
    CASE c.kind = "KeyAdded" -> 1
      [] c.kind = "KeyModified" -> 2
      [] c.kind = "ValueAdded" -> 3
      [] c.kind = "ValueModified" -> 4
      [] c.kind = "ValueDeleted" -> 5
      [] c.kind = "KeyDeleted" -> 6

\* The number of backslashes of the path of a change.
backslashes(c) == Cardinality({i \in 1..Len(c.path) : c.path[i] = 92})

\* The sort of the phase leaves the two changes in input order.
not_separated(c, d) ==
    phase(c) = phase(d) /\ (phase(c) \in {1, 6} => backslashes(c) = backslashes(d))

\* s lists the elements of t at the positions pos, in increasing order.
picks(s, t, pos) ==
    /\ Len(s) = Cardinality(pos)
    /\ \A i \in 1..Len(s) :
           \E p \in pos : Cardinality({q \in pos : q < p}) = i - 1 /\ s[i] = t[p]

\* C23: the ordered list is a permutation of the input in six phases, key
\* additions by ascending and key deletions by descending number of
\* backslashes, changes the sort does not separate in input order; and the
\* changes attempted so far are the first ones of the ordered list, in order.
C23_SixPhases ==
    pc # "idle" =>
        /\ Len(ordered) = Len(input)
        /\ \E pi \in [1..Len(ordered) -> 1..Len(input)] :
               /\ \A i, j \in 1..Len(ordered) : i # j => pi[i] # pi[j]
               /\ \A i \in 1..Len(ordered) : ordered[i] = input[pi[i]]
               /\ \A i, j \in 1..Len(ordered) :
                      i < j /\ not_separated(ordered[i], ordered[j]) => pi[i] < pi[j]
        /\ \A i, j \in 1..Len(ordered) :
               i < j =>
                   /\ phase(ordered[i]) <= phase(ordered[j])
                   /\ phase(ordered[i]) = 1 /\ phase(ordered[j]) = 1
                          => backslashes(ordered[i]) <= backslashes(ordered[j])
                   /\ phase(ordered[i]) = 6 /\ phase(ordered[j]) = 6
                          => backslashes(ordered[i]) >= backslashes(ordered[j])
        /\ LET k == Len(applied) + Len(failed)
           IN /\ k <= Len(ordered)
              /\ \E F \in SUBSET (1..k) :
                     /\ picks(applied, ordered, (1..k) \ F)
                     /\ picks([i \in 1..Len(failed) |-> failed[i].change], ordered, F)

\* A list given with a deletion first and the additions deepest first, two
\* changes kept in input order, and every change attempted.
C23_Witness ==
    /\ pc = "done"
    /\ Len(input) = 3
    /\ Len(applied) + Len(failed) = 3
    /\ input # ordered
    /\ \/ phase(input[1]) = 6 /\ phase(input[2]) = 1
       \/ /\ phase(input[1]) = 1 /\ phase(input[2]) = 1
          /\ backslashes(input[1]) > backslashes(input[2])
       \/ /\ phase(input[1]) = 6 /\ phase(input[2]) = 6
          /\ backslashes(input[1]) < backslashes(input[2])

---------------------------------------------------------------------------
(* Value changes applied to a built tree: apply_value_added, apply_value_modified *)

MaxValueChanges == 1

v_dword_two == RegistryValue(s_V, DDword(2))

\* The value changes of the hand-written lists: on "a\b", on the absent "c" and
\* on the root.
ValueChanges ==
    {ValueAdded(p_a_b, s_V, v_dword_two), ValueAdded(s_c, s_v, v_dword),
     ValueAdded(<<>>, s_V, v_dword_two),
     ValueModified(p_a_b, s_V, v_string, v_dword_two),
     ValueModified(s_c, s_v, v_string, v_dword)}

ValueInputs == SeqsUpTo(ValueChanges, MaxValueChanges)

\* The builder calls on the target of the value changes.
BuildValueTarget ==
    /\ pc = "idle"
    /\ nops < MaxOps
    /\ \/ CreateKeyRecursive("left", p_a_b)
       \/ \E p \in DOMAIN left, data \in BuildData : SetValue("left", p, s_v, data)

StartValuePatch ==
    /\ pc = "idle"
    /\ \E diff \in ValueInputs, opts \in PatchOptionsAll : StartPatch(diff, opts)

\* One tree built, then patched with value changes under any options.
NextValue ==
    \/ BuildValueTarget
    \/ StartValuePatch
    \/ PatchStep
    \/ PatchReturn

SpecValue == Init /\ [][NextValue]_vars

---------------------------------------------------------------------------
(* The value changes, one loop iteration at a time *)

\* The node a key path names: its non-empty segments, folded.
key_position(path) == [i \in 1..Len(segments(path)) |-> normalize(segments(path)[i])]

\* The iteration of the loop that is about to run handles a change of this kind.
stepping(kind) == pc = "loop" /\ idx <= Len(ordered) /\ ordered[idx].kind = kind

\* C24: a ValueModified change fails when its keyPath does not resolve; with
\* validate_before_apply it is applied only when the current value has the type
\* code and canonical bytes of old, and fails otherwise with the stored value as
\* it was; without validate_before_apply it sets new whatever the current value
\* is, also when there is none.
C24_ValueModified ==
    [][stepping("ValueModified") =>
        LET c == ordered[idx]
            k == key_position(c.path)
            fails == /\ applied' = applied
                     /\ Len(failed') = Len(failed) + 1
                     /\ failed'[Len(failed')].change = c
            applies == applied' = Append(applied, c) /\ failed' = failed
        IN IF k \notin DOMAIN left THEN fails /\ left' = left
           ELSE IF options.validate_before_apply
                   /\ ~(get_value(left, k, c.name) # None
                        /\ reg_type(get_value(left, k, c.name)[1]) = reg_type(c.old_value)
                        /\ raw_bytes(get_value(left, k, c.name)[1]) = raw_bytes(c.old_value))
           THEN /\ fails
                /\ k \in DOMAIN left'
                /\ get_value(left', k, c.name) = get_value(left, k, c.name)
           ELSE /\ applies
                /\ k \in DOMAIN left'
                /\ get_value(left', k, c.name) = Some(c.new_value)]_vars

\* A validated ValueModified went through on a stored value of another variant
\* with the type code and bytes of old.
C24_Witness ==
    /\ pc = "done"
    /\ options.validate_before_apply
    /\ applied = <<ValueModified(p_a_b, s_V, v_string, v_dword_two)>>
    /\ get_value(before, <<normalize(s_a), normalize(s_b)>>, s_v)
           = Some(RegistryValue(s_v, DBinary(<<97, 0, 0, 0>>, REG_SZ)))
    /\ get_value(left, <<normalize(s_a), normalize(s_b)>>, s_v) = Some(v_dword_two)

\* C25: a ValueAdded change fails and leaves the existing value when
\* overwrite_existing_values is false and a value is stored under the folded
\* name; it fails and creates no key when create_missing_keys is false and its
\* keyPath does not resolve; otherwise it sets the value, and with
\* create_missing_keys the keyPath and its missing ancestors exist afterwards.
C25_ValueAdded ==
    [][stepping("ValueAdded") =>
        LET c == ordered[idx]
            k == key_position(c.path)
            fails == /\ applied' = applied
                     /\ Len(failed') = Len(failed) + 1
                     /\ failed'[Len(failed')].change = c
            applies == applied' = Append(applied, c) /\ failed' = failed
        IN IF k \in DOMAIN left /\ ~options.overwrite_existing_values
              /\ normalize(c.name) \in DOMAIN left[k].values
           THEN /\ fails
                /\ DOMAIN left' = DOMAIN left
                /\ left'[k].values = left[k].values
           ELSE IF k \notin DOMAIN left /\ ~options.create_missing_keys
           THEN fails /\ DOMAIN left' = DOMAIN left /\ left' = left
           ELSE /\ applies
                /\ \A i \in 0..Len(k) : SubSeq(k, 1, i) \in DOMAIN left'
                /\ DOMAIN left' = DOMAIN left \cup {SubSeq(k, 1, i) : i \in 0..Len(k)}
                /\ left'[k].values =
                       MapInsert(IF k \in DOMAIN left THEN left[k].values ELSE <<>>,
                                 normalize(c.name), c.value)]_vars

\* A ValueAdded naming "V" was refused because "v" was stored and values are not
\* overwritten, although missing keys would have been created.
C25_Witness ==
    /\ pc = "done"
    /\ ~options.overwrite_existing_values
    /\ options.create_missing_keys
    /\ failed # <<>>
    /\ failed[1].change = ValueAdded(p_a_b, s_V, v_dword_two)
    /\ get_value(left, <<normalize(s_a), normalize(s_b)>>, s_v) = Some(v_string)

---------------------------------------------------------------------------
(* Failed changes *)

\* C28: a change that is recorded as failed leaves the target tree exactly as it
\* was before the change was attempted, whatever its kind and the options.
C28_FailedChangeLeavesTree ==
    [][(pc = "loop" /\ idx <= Len(ordered) /\ Len(failed') > Len(failed)) => left' = left]_vars

\* One change failed and one was applied, in a loop that goes on after failures.
C28_Witness ==
    /\ pc = "done"
    /\ options.ignore_failures
    /\ Len(failed) = 1
    /\ Len(applied) = 1
    /\ left # before

---------------------------------------------------------------------------
(* A KeyNode kept by the caller while delete_subkey removes the key *)

MaxHandleCalls == 2

p_a_b_c == p_a_b \o <<BACKSLASH>> \o s_c

\* The subtree below node c, its positions counted from c.
subtree(t, c) ==
    [q \in {SubSeq(r, Len(c) + 1, Len(r)) : r \in {x \in DOMAIN t : IsPrefix(c, x)}} |->
        t[c \o q]]

\* The names get_full_path collects on the way from node p up to the root of t,
\* reversed: empty names are left out.
key_names(t, p) ==
    SelectSeq([i \in 1..(Len(p) + 1) |-> t[SubSeq(p, 1, i - 1)].name], LAMBDA s : s # <<>>)

\* parent.upgrade() of the removed key: its Weak still upgrades while the former
\* parent is held by the tree.
upgrades(h, t) == h.parent \in DOMAIN t

\* RegistryKey::get_full_path on the key at position at below the kept node.
get_full_path(h, t, at) ==
    join((IF upgrades(h, t) THEN key_names(t, h.parent) ELSE <<>>) \o key_names(h.tree, at),
         <<BACKSLASH, BACKSLASH>>)

\* mark_dirty leaving the removed subtree through the parent of the removed key.
mark_dirty_above(h, t) == IF upgrades(h, t) THEN mark_dirty(t, h.parent) ELSE t

\* The builder calls before a key is removed.
BuildHandleTree ==
    /\ handle = None
    /\ \/ \E path \in {p_a_b, p_a_b_c} : CreateKeyRecursive("left", path)
       \/ \E p \in DOMAIN left : SetValue("left", p, s_v, DDword(1))

\* let node = parent.get_subkey(name); RegistryKey::delete_subkey(&parent, name, recursive)
Detach ==
    /\ handle = None
    /\ \E p \in DOMAIN left : \E name \in subkey_names(left, p), recursive \in BOOLEAN :
           LET d == delete_subkey(left, p, name, recursive)
           IN /\ d.removed
              /\ left' = d.tree
              /\ handle' = Some([tree |-> subtree(left, Append(p, name)), parent |-> p])
    /\ UNCHANGED <<right, nops, patch_vars, text_vars, call, diff_vars, time_vars, reported>>

\* A later delete_subkey in the tree; it may drop the former parent.
DeleteInTree ==
    /\ handle # None
    /\ \E p \in DOMAIN left : \E name \in subkey_names(left, p) :
           left' = delete_subkey(left, p, name, TRUE).tree
    /\ UNCHANGED <<right, nops, patch_vars, text_vars, call, diff_vars, time_vars, handle_vars>>

\* One call on a key of the removed subtree: the subtree after it, and the tree
\* after the mark_dirty of the call, if the call marks.
HandleCall(removed_tree, marks) ==
    /\ nops < MaxOps + MaxHandleCalls
    /\ nops' = nops + 1
    /\ handle' = Some([handle[1] EXCEPT !.tree = removed_tree])
    /\ left' = IF marks THEN mark_dirty_above(handle[1], left) ELSE left
    /\ UNCHANGED <<right, patch_vars, text_vars, call, diff_vars, time_vars, reported>>

\* node.borrow_mut().set_value(name, value)
HandleSetValue ==
    /\ handle # None
    /\ \E at \in DOMAIN handle[1].tree :
           HandleCall(set_value(handle[1].tree, at, s_v, v_dword), TRUE)

\* node.borrow_mut().delete_value(name)
HandleDeleteValue ==
    /\ handle # None
    /\ \E at \in DOMAIN handle[1].tree :
           LET d == delete_value(handle[1].tree, at, s_v)
           IN HandleCall(d.tree, d.removed)

\* RegistryKey::create_subkey(&node, name)
HandleCreateSubkey ==
    /\ handle # None
    /\ \E at \in DOMAIN handle[1].tree :
           HandleCall(create_subkey(handle[1].tree, at, s_c).tree,
                      Append(at, normalize(s_c)) \notin DOMAIN handle[1].tree)

\* RegistryKey::get_full_path(&node)
HandleGetFullPath ==
    /\ handle # None
    /\ \E at \in DOMAIN handle[1].tree :
           reported' = Some([at |-> at, path |-> get_full_path(handle[1], left, at)])
    /\ UNCHANGED <<left, right, nops, patch_vars, text_vars, call, diff_vars, time_vars, handle>>

NextHandle ==
    \/ BuildHandleTree
    \/ Detach
    \/ DeleteInTree
    \/ HandleSetValue
    \/ HandleDeleteValue
    \/ HandleCreateSubkey
    \/ HandleGetFullPath

SpecHandle == Init /\ [][NextHandle]_vars

\* C26: once delete_subkey has removed a key, a call on a kept handle to a key of
\* the removed subtree (set_value, delete_value, create_subkey, get_full_path)
\* changes no dirty flag of a key still in the tree, and the path it reports
\* holds the names of removed keys only, none of a former ancestor.
C26_RemovedKeyDetached ==
    [][(handle # None /\ handle' # None /\ DOMAIN left' = DOMAIN left) =>
        /\ \A q \in DOMAIN left : left'[q].is_dirty = left[q].is_dirty
        /\ reported' # None =>
               reported'[1].path = join(key_names(handle'[1].tree, reported'[1].at),
                                        <<BACKSLASH, BACKSLASH>>)]_vars

---------------------------------------------------------------------------
(* A text patch: export_diff_text, TextDiffParser::parse, apply_patch *)

\* The builder calls on the two trees, before the diff text is made.
BuildBeforeExport ==
    /\ exported = None
    /\ BuildBoth

\* left.export_diff_text(&right, None, None)
ExportDiffText ==
    /\ pc = "idle"
    /\ exported = None
    /\ \E generated \in GeneratedTimes :
           exported' = Some(export(compare_registries(left, right), generated))
    /\ parsed' = parsed
    /\ UNCHANGED <<left, right, nops, patch_vars, text_vars, call, time_vars, handle_vars>>

\* left.apply_patch(&diff) with the diff the parser returned
StartParsedPatch ==
    /\ parsed # None
    /\ parsed[1].tag = "Ok"
    /\ BeginPatch(parsed[1].val, PatchOptionsDefault)

NextText ==
    \/ BuildBeforeExport
    \/ ExportDiffText
    \/ ParseDiff
    \/ StartParsedPatch
    \/ PatchStep
    \/ PatchReturn

SpecText == Init /\ [][NextText]_vars

\* C27: in every tree a value is stored under the ASCII-uppercase of the name
\* its own record carries, also after a patch parsed from a diff text was
\* applied.
C27_StoredUnderOwnName ==
    \A k \in DOMAIN left : \A s \in DOMAIN left[k].values :
        s = normalize(left[k].values[s].name)

---------------------------------------------------------------------------
(* The names of the keys a compare-made patch creates *)

\* C29: when the patch compare(left, right) has been applied to left with the
\* default options, every key the patch created in left carries the recorded
\* name, in its original letter case, of the key of right at the same place.
C29_CreatedKeysKeepNames ==
    pc = "done" =>
        \A q \in DOMAIN left \ DOMAIN before :
            q \in DOMAIN right => left[q].name = right[q].name

====
